---- MODULE Spec2Model ----
(***************************************************************************)
(* Style/geometry -> layer-tree inference of figma-web-import.             *)
(*                                                                         *)
(* The value parsers (parseColor, parseGradient, the shadow parsers), the  *)
(* style resolver parseBackground and the gap inference of convertElement  *)
(* are pure functions.  Each is an operator computed the way the code      *)
(* computes it, on strings represented as sequences of one-character       *)
(* strings and on numbers represented as exact rationals.  A behaviour     *)
(* is one call: Init draws the arguments, one action per function applies  *)
(* it and stores what it returns.                                          *)
(***************************************************************************)
EXTENDS Integers, Sequences, FiniteSets, TLC

VARIABLES
    pc,     \* "call" before the function has run, "done" after it
    fn,     \* the function being called
    arg,    \* its arguments, with a description of how they were written
    ret     \* what it returned

vars == <<pc, fn, arg, ret>>

-----------------------------------------------------------------------------
(* JavaScript numbers: an exact rational n/d (d > 0, lowest terms), NaN,   *)
(* or undefined (a property that is absent).                               *)

RECURSIVE Gcd(_, _)
Gcd(a, b) == IF b = 0 THEN a ELSE Gcd(b, a % b)

Abs(x) == IF x < 0 THEN -x ELSE x

Num(n, d) ==
    LET g == Gcd(Abs(n), d)
    IN  [k |-> "num", n |-> n \div g, d |-> d \div g]

NaN == [k |-> "nan", n |-> 0, d |-> 1]

Undefined == [k |-> "undefined", n |-> 0, d |-> 1]

Whole(n) == Num(n, 1)

\* x + y over the least common denominator, g the gcd of the denominators
AddOver(x, y, g) == Num(x.n * (y.d \div g) + y.n * (x.d \div g), (x.d \div g) * y.d)

Add(x, y) ==
    IF x.k # "num" \/ y.k # "num" THEN NaN ELSE AddOver(x, y, Gcd(x.d, y.d))

Neg(x) == [x EXCEPT !.n = -@]

Sub(x, y) == Add(x, Neg(y))

\* x * y with the common factors g1 of x.n, y.d and g2 of y.n, x.d cancelled
MulOver(x, y, g1, g2) ==
    Num((x.n \div g1) * (y.n \div g2), (x.d \div g2) * (y.d \div g1))

Mul(x, y) ==
    IF x.k # "num" \/ y.k # "num" THEN NaN
    ELSE MulOver(x, y, Gcd(Abs(x.n), y.d), Gcd(Abs(y.n), x.d))

Div(x, y) ==
    IF y.k # "num" \/ x.k # "num" \/ y.n = 0 THEN NaN
    ELSE Mul(x, IF y.n < 0 THEN Num(-y.d, -y.n) ELSE Num(y.d, y.n))

Lt(x, y) == x.k = "num" /\ y.k = "num" /\ x.n * y.d < y.n * x.d

Le(x, y) == x.k = "num" /\ y.k = "num" /\ x.n * y.d <= y.n * x.d

NumAbs(x) == [x EXCEPT !.n = Abs(x.n)]

\* Math.floor and Math.round (round half up)
Floor(x) == x.n \div x.d

Round(x) == (2 * x.n + x.d) \div (2 * x.d)

-----------------------------------------------------------------------------
(* Strings are sequences of one-character strings.                         *)

Chars(s) == [i \in 1..Len(s) |-> SubSeq(s, i, i)] \o <<>>

DIGITS == {"0", "1", "2", "3", "4", "5", "6", "7", "8", "9"}

HEXDIGITS ==
    DIGITS \cup {"a", "b", "c", "d", "e", "f", "A", "B", "C", "D", "E", "F"}

UPPER == Chars("ABCDEFGHIJKLMNOPQRSTUVWXYZ")

LOWER == Chars("abcdefghijklmnopqrstuvwxyz")

\* \w of a regular expression
WORDCHARS == DIGITS \cup {"_"} \cup {UPPER[i] : i \in 1..26} \cup {LOWER[i] : i \in 1..26}

\* \s of a regular expression
WS == {" ", "\t", "\n"}

toLowerCase(s) ==
    [i \in 1..Len(s) |->
        IF \E j \in 1..26 : UPPER[j] = s[i]
        THEN LOWER[CHOOSE j \in 1..26 : UPPER[j] = s[i]]
        ELSE s[i]]

\* the element of a one-element set: The({e(x) : x \in {v}}) is e(v), a local
\* constant x whose value v is computed once
The(S) == CHOOSE x \in S : TRUE

\* the least element of a non-empty set of integers
Min(S) == CHOOSE x \in S : \A y \in S : x <= y

\* the least element of a set of integers, none when it is empty
MinOr(S, none) == IF S = {} THEN none ELSE Min(S)

\* the character at position p, "" past either end
At(s, p) == IF p >= 1 /\ p <= Len(s) THEN s[p] ELSE ""

\* the position after the longest run of characters of cls starting at p
Span(cls, s, p) ==
    IF p > Len(s) THEN p
    ELSE MinOr({q \in p..Len(s) : s[q] \notin cls}, Len(s) + 1)

\* the position after the longest run of characters not in cls starting at p
SpanNot(cls, s, p) ==
    IF p > Len(s) THEN p
    ELSE MinOr({q \in p..Len(s) : s[q] \in cls}, Len(s) + 1)

\* s has lit at position p
StartsAt(s, p, lit) ==
    /\ p >= 1
    /\ p + Len(lit) - 1 <= Len(s)
    /\ SubSeq(s, p, p + Len(lit) - 1) = lit

\* String.prototype.indexOf from position p on: the first position, 0 if none
indexOf(s, lit, p) ==
    MinOr({q \in p..(Len(s) - Len(lit) + 1) : StartsAt(s, q, lit)}, 0)

includes(s, lit) == indexOf(s, lit, 1) # 0

\* String.prototype.substring, for positions counted from 1 (to is the
\* position after the last character): out-of-range positions are clamped
\* and the two are swapped when from > to
substring(s, from, to) ==
    LET clamp(p) == IF p < 1 THEN 1 ELSE IF p > Len(s) + 1 THEN Len(s) + 1 ELSE p
    IN  IF clamp(from) <= clamp(to) THEN SubSeq(s, clamp(from), clamp(to) - 1)
        ELSE SubSeq(s, clamp(to), clamp(from) - 1)

\* String.prototype.trim: from the first to the last character that is not
\* white space
trim(s) ==
    SubSeq(s, MinOr({j \in 1..Len(s) : s[j] \notin WS}, 1),
              -MinOr({-j : j \in {j \in 1..Len(s) : s[j] \notin WS}}, 0))

\* String.prototype.replace(lit, ''): the first occurrence of lit removed
replaceFirst(s, lit) ==
    IF indexOf(s, lit, 1) = 0 \/ Len(lit) = 0 THEN s
    ELSE SubSeq(s, 1, indexOf(s, lit, 1) - 1)
         \o SubSeq(s, indexOf(s, lit, 1) + Len(lit), Len(s))

(* Regular expressions.  A pattern is a sequence of elements.  A thread is  *)
(* one way of matching the elements read so far: where it began (b), the    *)
(* position it has reached (p), its capture groups, and the number of       *)
(* elements it still skips (the body of an optional group it did not        *)
(* enter).  The threads are kept in the order in which the backtracking     *)
(* matcher of ECMAScript tries them (a greedy quantifier gives back one     *)
(* character at a time, an optional group is entered first, alternatives    *)
(* are tried from left to right), so that the first thread left at the end  *)
(* of the pattern is the match it returns.                                  *)

\* a literal string
Str(t) == <<[t |-> "lit", s |-> Chars(t)]>>

\* [cls]{min,max}, and [^cls]{min,max}; max = -1 is no upper limit
Rep(cls, min, max) ==
    <<[t |-> "rep", cls |-> cls, neg |-> FALSE, min |-> min, max |-> max]>>

RepNot(cls, min, max) ==
    <<[t |-> "rep", cls |-> cls, neg |-> TRUE, min |-> min, max |-> max]>>

\* (?:body)?
Maybe(body) == <<[t |-> "opt", n |-> Len(body)]>> \o body

\* (?:alts[1]|alts[2]|...)
Alt(alts) == <<[t |-> "alt", alts |-> alts]>>

\* capture group n
Cap(n, body) == <<[t |-> "capS", n |-> n]>> \o body \o <<[t |-> "capE", n |-> n]>>

\* ^, $ and \b
Bol == <<[t |-> "bol"]>>

Eol == <<[t |-> "eol"]>>

Wb == <<[t |-> "wb"]>>

\* \d+(?:\.\d+)?
NumberRe == Rep(DIGITS, 1, -1) \o Maybe(Str(".") \o Rep(DIGITS, 1, -1))

NoMatch == [ok |-> FALSE, b |-> 0, e |-> 0, caps |-> <<>>]

\* capture groups that did not take part in a match are <<0, 0>>
NoCaps == [i \in 1..5 |-> <<0, 0>>]

\* the threads that begin at the positions p..q of a string
StartThreads(p, q) ==
    [k \in 1..(q - p + 1) |->
        [b |-> p + k - 1, p |-> p + k - 1, caps |-> NoCaps, skip |-> 0]] \o <<>>

\* the sequences of ss one after the other: the k-th element is the j-th of
\* the i-th sequence for the k-th pair <<i, j>> in the order of the pairs
Flatten(sequences) ==
    CHOOSE flat \in
        {LET at == UNION {{<<i, j>> : j \in 1..Len(ss[i])} : i \in DOMAIN ss}
         IN  [k \in 1..Cardinality(at) |->
                LET ij == CHOOSE x \in at :
                             Cardinality({y \in at : \/ y[1] < x[1]
                                                     \/ y[1] = x[1] /\ y[2] <= x[2]}) = k
                IN  ss[ij[1]][ij[2]]] \o <<>> :
            ss \in {sequences}} : TRUE

\* the number of characters a quantified class takes at position p of s at
\* the most: it stops at its upper limit, at the end of s and before the
\* first character that is not of the class
RepRun(h, s, p) ==
    Min({n \in 0..(Len(s) + 1 - p) : \/ n = h.max
                                     \/ p + n > Len(s)
                                     \/ (s[p + n] \in h.cls) = h.neg})

\* the threads of the element h from the thread t, and of the pattern pat
\* from the threads ts
RECURSIVE Step(_, _, _)
RECURSIVE Threads(_, _, _)
Step(h, s, t) ==
    IF t.skip > 0 THEN <<[t EXCEPT !.skip = @ - 1]>>
    ELSE CASE h.t = "lit" ->
                IF StartsAt(s, t.p, h.s) THEN <<[t EXCEPT !.p = @ + Len(h.s)]>> ELSE <<>>
           [] h.t = "rep" ->
                [k \in 1..(RepRun(h, s, t.p) - h.min + 1) |->
                    [t EXCEPT !.p = @ + RepRun(h, s, t.p) - k + 1]] \o <<>>
           [] h.t = "opt" -> <<t, [t EXCEPT !.skip = h.n]>>
           [] h.t = "alt" ->
                Flatten([a \in DOMAIN h.alts |-> Threads(h.alts[a], s, <<t>>)] \o <<>>)
           [] h.t = "capS" -> <<[t EXCEPT !.caps[h.n] = <<t.p, t.p>>]>>
           [] h.t = "capE" -> <<[t EXCEPT !.caps[h.n][2] = t.p]>>
           [] h.t = "bol" -> IF t.p = 1 THEN <<t>> ELSE <<>>
           [] h.t = "eol" -> IF t.p = Len(s) + 1 THEN <<t>> ELSE <<>>
           [] h.t = "wb" ->
                IF (At(s, t.p - 1) \in WORDCHARS) # (At(s, t.p) \in WORDCHARS)
                THEN <<t>> ELSE <<>>

Threads(pat, s, ts) ==
    IF Len(ts) = 0 \/ Len(pat) = 0 THEN ts
    ELSE IF Len(pat) = 1 THEN Flatten([i \in DOMAIN ts |-> Step(pat[1], s, ts[i])] \o <<>>)
    ELSE CHOOSE threads \in
            {Threads(SubSeq(pat, (Len(pat) \div 2) + 1, Len(pat)), s, half) :
                half \in {Threads(SubSeq(pat, 1, Len(pat) \div 2), s, ts)}} : TRUE

\* the match that the first of the threads ts stands for
FirstMatch(ts) ==
    IF Len(ts) = 0 THEN NoMatch
    ELSE [ok |-> TRUE, b |-> ts[1].b, e |-> ts[1].p, caps |-> ts[1].caps]

\* the pattern pat matched at position p of s
Match(pat, s, p) == FirstMatch(Threads(pat, s, StartThreads(p, p)))

\* String.prototype.match without the g flag: the leftmost match from p on;
\* b and e are its first position and the position after it
Search(pat, s, p) == FirstMatch(Threads(pat, s, StartThreads(p, Len(s) + 1)))

\* String.prototype.replace(regexp, '') for the match m of the regexp in s
replaceMatch(s, m) ==
    IF m.ok THEN SubSeq(s, 1, m.b - 1) \o SubSeq(s, m.e, Len(s)) ELSE s

\* the text of capture group n of a match, <<>> when it did not take part
Group(s, m, n) == IF m.ok THEN SubSeq(s, m.caps[n][1], m.caps[n][2] - 1) ELSE <<>>

\* String.prototype.match with the g flag: the texts of all the matches
RECURSIVE MatchAll(_, _, _)
RECURSIVE MatchAllFrom(_, _, _)
MatchAll(pat, s, p) == MatchAllFrom(pat, s, Search(pat, s, p))

\* the match m and the matches after it
MatchAllFrom(pat, s, m) ==
    IF ~m.ok THEN <<>>
    ELSE <<SubSeq(s, m.b, m.e - 1)>>
         \o MatchAll(pat, s, IF m.e > m.b THEN m.e ELSE m.e + 1)

\* the value of a run of digits in base `base`
RECURSIVE DigitsValue(_, _)
DigitsValue(s, base) ==
    IF Len(s) = 0 THEN 0
    ELSE DigitsValue(SubSeq(s, 1, Len(s) - 1), base) * base
         + (CHOOSE i \in 0..15 :
                Chars("0123456789abcdef")[i + 1] = toLowerCase(<<s[Len(s)]>>)[1])

RECURSIVE Pow10(_)
Pow10(k) == IF k = 0 THEN 1 ELSE 10 * Pow10(k - 1)

\* /^\s*([-+]?)(\d*)(?:\.(\d*))?/: the prefix of a string parseFloat reads
\* (exponents and Infinity are not written in any string the parsers pass)
floatRe ==
    Rep(WS, 0, -1) \o Cap(1, Rep({"-", "+"}, 0, 1)) \o Cap(2, Rep(DIGITS, 0, -1))
    \o Maybe(Str(".") \o Cap(3, Rep(DIGITS, 0, -1)))

\* the number of a sign, an integer part and a fraction part
floatOf(sign, ip, fp) ==
    IF Len(ip) = 0 /\ Len(fp) = 0 THEN NaN
    ELSE Num((IF sign = <<"-">> THEN -1 ELSE 1)
                 * (DigitsValue(ip, 10) * Pow10(Len(fp)) + DigitsValue(fp, 10)),
             Pow10(Len(fp)))

\* parseFloat: leading white space, a sign, digits, a point, digits; whatever
\* follows is ignored; NaN when no digit is found
parseFloat(s) ==
    The({floatOf(Group(s, m, 1), Group(s, m, 2), Group(s, m, 3)) :
            m \in {Match(floatRe, s, 1)}})

-----------------------------------------------------------------------------
(* color-utils.ts                                                          *)

RGBA(r, g, b, a) == [r |-> r, g |-> g, b |-> b, a |-> a]

BLACK == RGBA(Whole(0), Whole(0), Whole(0), Whole(1))

\* the absent optional argument fallbackColor
NoFallback == RGBA(Undefined, Undefined, Undefined, Undefined)

\* x % 2 for x >= 0
Mod2(x) == Sub(x, Whole(2 * Floor(Div(x, Whole(2)))))

\* line 9: the chroma c of a saturation and a lightness in 0..1
hslChroma(s, l) ==
    Mul(Sub(Whole(1), NumAbs(Sub(Mul(Whole(2), l), Whole(1)))), s)

\* lines 12-19: the sextant of the hue h chooses where c and x go, m is added
hslSextant(h, c, x, m) ==
    IF Lt(h, Whole(60)) THEN [r |-> Add(c, m), g |-> Add(x, m), b |-> m]
    ELSE IF Lt(h, Whole(120)) THEN [r |-> Add(x, m), g |-> Add(c, m), b |-> m]
    ELSE IF Lt(h, Whole(180)) THEN [r |-> m, g |-> Add(c, m), b |-> Add(x, m)]
    ELSE IF Lt(h, Whole(240)) THEN [r |-> m, g |-> Add(x, m), b |-> Add(c, m)]
    ELSE IF Lt(h, Whole(300)) THEN [r |-> Add(x, m), g |-> m, b |-> Add(c, m)]
    ELSE [r |-> Add(c, m), g |-> m, b |-> Add(x, m)]

hslToRgb(h, s, l) ==
    The({The({hslSextant(h, c, xm[1], xm[2]) :
                 xm \in {<<Mul(c, Sub(Whole(1),
                                      NumAbs(Sub(Mod2(Div(h, Whole(60))), Whole(1))))),
                           Sub(Div(l, Whole(100)), Div(c, Whole(2)))>>}}) :
            c \in {hslChroma(Div(s, Whole(100)), Div(l, Whole(100)))}})

namedColors ==
    LET t(x) == Num(x, 1000)
        o == Whole(1)
        z == Whole(0)
    IN  << <<"white", RGBA(o, o, o, o)>>,
           <<"black", RGBA(z, z, z, o)>>,
           <<"red", RGBA(o, z, z, o)>>,
           <<"green", RGBA(z, t(502), z, o)>>,
           <<"blue", RGBA(z, z, o, o)>>,
           <<"gray", RGBA(t(502), t(502), t(502), o)>>,
           <<"grey", RGBA(t(502), t(502), t(502), o)>>,
           <<"yellow", RGBA(o, o, z, o)>>,
           <<"orange", RGBA(o, t(647), z, o)>>,
           <<"purple", RGBA(t(502), z, t(502), o)>>,
           <<"pink", RGBA(o, t(753), t(796), o)>>,
           <<"cyan", RGBA(z, o, o, o)>>,
           <<"magenta", RGBA(o, z, o, o)>>,
           <<"brown", RGBA(t(647), t(165), t(165), o)>>,
           <<"navy", RGBA(z, z, t(502), o)>>,
           <<"teal", RGBA(z, t(502), t(502), o)>>,
           <<"silver", RGBA(t(753), t(753), t(753), o)>>,
           <<"maroon", RGBA(t(502), z, z, o)>>,
           <<"olive", RGBA(t(502), t(502), z, o)>>,
           <<"lime", RGBA(z, o, z, o)>>,
           <<"aqua", RGBA(z, o, o, o)>>,
           <<"fuchsia", RGBA(o, z, o, o)>>,
           <<"transparent", RGBA(z, z, z, z)>> >>

\* The lower-case property names every object literal inherits from
\* Object.prototype: `key in namedColors` is true of them as well, and
\* namedColors[key] is then the inherited value, which has no r, g, b or a.
InheritedKeys == {Chars("constructor"), Chars("__proto__")}

InheritedValue == RGBA(Undefined, Undefined, Undefined, Undefined)

clamp01(value) ==
    IF value.k # "num" THEN NaN
    ELSE IF Lt(value, Whole(0)) THEN Whole(0)
    ELSE IF Lt(Whole(1), value) THEN Whole(1)
    ELSE value

parseHexColor(hex) ==
    LET two(i)  == Num(DigitsValue(<<hex[i], hex[i]>>, 16), 255)
        pair(i) == Num(DigitsValue(SubSeq(hex, i, i + 1), 16), 255)
    IN  IF Len(hex) = 3 THEN RGBA(two(1), two(2), two(3), Whole(1))
        ELSE IF Len(hex) = 4 THEN RGBA(two(1), two(2), two(3), two(4))
        ELSE IF Len(hex) = 6 THEN RGBA(pair(1), pair(3), pair(5), Whole(1))
        ELSE IF Len(hex) = 8 THEN RGBA(pair(1), pair(3), pair(5), pair(7))
        ELSE BLACK

\* /rgba?\(\s*(\d+(?:\.\d+)?)\s*,\s*(\d+(?:\.\d+)?)\s*,\s*(\d+(?:\.\d+)?)\s*(?:,\s*(\d+(?:\.\d+)?)(%?))?\s*\)/
rgbaCommaRe ==
    Str("rgb") \o Maybe(Str("a")) \o Str("(") \o Rep(WS, 0, -1)
    \o Cap(1, NumberRe) \o Rep(WS, 0, -1) \o Str(",") \o Rep(WS, 0, -1)
    \o Cap(2, NumberRe) \o Rep(WS, 0, -1) \o Str(",") \o Rep(WS, 0, -1)
    \o Cap(3, NumberRe) \o Rep(WS, 0, -1)
    \o Maybe(Str(",") \o Rep(WS, 0, -1) \o Cap(4, NumberRe) \o Cap(5, Maybe(Str("%"))))
    \o Rep(WS, 0, -1) \o Str(")")

\* /rgba?\(\s*(\d+(?:\.\d+)?)\s+(\d+(?:\.\d+)?)\s+(\d+(?:\.\d+)?)\s*(?:\/\s*(\d+(?:\.\d+)?)(%?))?\s*\)/
rgbaSpaceRe ==
    Str("rgb") \o Maybe(Str("a")) \o Str("(") \o Rep(WS, 0, -1)
    \o Cap(1, NumberRe) \o Rep(WS, 1, -1)
    \o Cap(2, NumberRe) \o Rep(WS, 1, -1)
    \o Cap(3, NumberRe) \o Rep(WS, 0, -1)
    \o Maybe(Str("/") \o Rep(WS, 0, -1) \o Cap(4, NumberRe) \o Cap(5, Maybe(Str("%"))))
    \o Rep(WS, 0, -1) \o Str(")")

\* /hsla?\((\d+),\s*(\d+)%,\s*(\d+)%(?:,\s*([\d.]+))?\)/
hslRe ==
    Str("hsl") \o Maybe(Str("a")) \o Str("(")
    \o Cap(1, Rep(DIGITS, 1, -1)) \o Str(",") \o Rep(WS, 0, -1)
    \o Cap(2, Rep(DIGITS, 1, -1)) \o Str("%,") \o Rep(WS, 0, -1)
    \o Cap(3, Rep(DIGITS, 1, -1)) \o Str("%")
    \o Maybe(Str(",") \o Rep(WS, 0, -1) \o Cap(4, Rep(DIGITS \cup {"."}, 1, -1)))
    \o Str(")")

\* /^#([a-fA-F0-9]{3,8})$/
hexRe == Bol \o Str("#") \o Cap(1, Rep(HEXDIGITS, 3, 8)) \o Eol

\* rgbaOfMatch with the percent sign of the alpha ignored
rgbaOfMatchPercentIgnored(s, m) ==
    RGBA(clamp01(Div(parseFloat(Group(s, m, 1)), Whole(255))),
         clamp01(Div(parseFloat(Group(s, m, 2)), Whole(255))),
         clamp01(Div(parseFloat(Group(s, m, 3)), Whole(255))),
         clamp01(IF m.caps[4][1] = 0 THEN Whole(1) ELSE parseFloat(Group(s, m, 4))))

\* what both rgb()/rgba() branches of parseColor return for a match m
rgbaOfMatch(s, m) ==
    RGBA(clamp01(Div(parseFloat(Group(s, m, 1)), Whole(255))),
         clamp01(Div(parseFloat(Group(s, m, 2)), Whole(255))),
         clamp01(Div(parseFloat(Group(s, m, 3)), Whole(255))),
         clamp01(IF m.caps[4][1] = 0 THEN Whole(1)
                 ELSE Div(parseFloat(Group(s, m, 4)),
                          Whole(IF Group(s, m, 5) = <<"%">> THEN 100 ELSE 1))))

\* the keywords parseColor resolves to the fallback colour
ContextKeywordsWithoutUnset ==
    {Chars("currentColor"), Chars("inherit"), Chars("initial")}

ContextKeywords ==
    {Chars("currentColor"), Chars("inherit"), Chars("initial"), Chars("unset")}

\* line 125: { ...rgb, a }
withAlpha(rgb, a) == RGBA(rgb.r, rgb.g, rgb.b, a)

\* lines 121-126: the colour of a match m of the hsl()/hsla() pattern
hslaOfMatch(s, m) ==
    The({withAlpha(hslToRgb(hsl[1], hsl[2], hsl[3]),
                   IF m.caps[4][1] # 0 THEN parseFloat(Group(s, m, 4)) ELSE Whole(1)) :
            hsl \in {<<parseFloat(Group(s, m, 1)), parseFloat(Group(s, m, 2)),
                       parseFloat(Group(s, m, 3))>>}})

\* lines 133-140: namedColors[lowerColor] when `lowerColor in namedColors`
namedColor(lowerColor) ==
    IF \E i \in 1..Len(namedColors) : Chars(namedColors[i][1]) = lowerColor
    THEN namedColors[CHOOSE i \in 1..Len(namedColors) :
                         Chars(namedColors[i][1]) = lowerColor][2]
    ELSE IF lowerColor \in InheritedKeys THEN InheritedValue
    ELSE BLACK

parseColor(cssColor, fallbackColor) ==
    IF cssColor \in ContextKeywords
    THEN IF fallbackColor # NoFallback THEN fallbackColor ELSE BLACK
    ELSE IF cssColor = Chars("transparent") \/ cssColor = Chars("rgba(0, 0, 0, 0)")
    THEN RGBA(Whole(0), Whole(0), Whole(0), Whole(0))
    ELSE The({
        IF rgbaCommaMatch.ok THEN rgbaOfMatch(cssColor, rgbaCommaMatch)
        ELSE The({
            IF rgbaSpaceMatch.ok THEN rgbaOfMatch(cssColor, rgbaSpaceMatch)
            ELSE The({
                IF hslMatch.ok THEN hslaOfMatch(cssColor, hslMatch)
                ELSE The({
                    IF hexMatch.ok THEN parseHexColor(Group(cssColor, hexMatch, 1))
                    ELSE namedColor(toLowerCase(cssColor)) :
                    hexMatch \in {Search(hexRe, cssColor, 1)}}) :
                hslMatch \in {Search(hslRe, cssColor, 1)}}) :
            rgbaSpaceMatch \in {Search(rgbaSpaceRe, cssColor, 1)}}) :
        rgbaCommaMatch \in {Search(rgbaCommaRe, cssColor, 1)}})

\* Number::toString of a whole number
RECURSIVE IntToString(_)
IntToString(n) ==
    IF n < 0 THEN <<"-">> \o IntToString(-n)
    ELSE IF n < 10 THEN <<Chars("0123456789")[n + 1]>>
    ELSE IntToString(n \div 10) \o <<Chars("0123456789")[(n % 10) + 1]>>

\* the decimals of a number with denominator d that has at most 9 of them
Decimals(d) == Min({j \in 0..9 : Pow10(j) % d = 0})

\* the decimal or exponent notation of a number below 1 with digits m, where
\* n is the number of digits less the number of decimals
DecimalString(m, n) ==
    IF n > 0 THEN SubSeq(m, 1, n) \o <<".">> \o SubSeq(m, n + 1, Len(m))
    ELSE IF n > -6 THEN <<"0", ".">> \o [i \in 1..(-n) |-> "0"] \o m
    ELSE <<m[1]>> \o (IF Len(m) > 1 THEN <<".">> \o Tail(m) ELSE <<>>)
         \o <<"e", "-">> \o IntToString(1 - n)

\* Number::toString of a number x >= 0 written with at most 9 decimals: with
\* digits m and 10^(n-1) <= x < 10^n, decimal notation when -6 < n, exponent
\* notation (1e-7, 1.5e-7) otherwise
NumberToString(x) ==
    IF x.d = 1 THEN IntToString(x.n)
    ELSE DecimalString(IntToString(x.n * (Pow10(Decimals(x.d)) \div x.d)),
                       Len(IntToString(x.n * (Pow10(Decimals(x.d)) \div x.d)))
                           - Decimals(x.d))

rgbaToCSS(color) ==
    Chars(IF color.a = Whole(1) THEN "rgb(" ELSE "rgba(")
    \o IntToString(Round(Mul(color.r, Whole(255)))) \o Chars(", ")
    \o IntToString(Round(Mul(color.g, Whole(255)))) \o Chars(", ")
    \o IntToString(Round(Mul(color.b, Whole(255))))
    \o (IF color.a = Whole(1) THEN <<>> ELSE Chars(", ") \o NumberToString(color.a))
    \o Chars(")")

isTransparent(color) == Le(color.a, Whole(0))

-----------------------------------------------------------------------------
(* Calls of parseColor and of rgbaToCSS: the arguments.                    *)

\* the fallback colours a caller passes: none, opaque red, a translucent blue
Fallbacks ==
    {NoFallback,
     RGBA(Whole(1), Whole(0), Whole(0), Whole(1)),
     RGBA(Whole(0), Whole(0), Num(1, 2), Num(1, 4))}

\* channel values written in the colour strings
Channels == {0, 128, 255}

\* alpha values as written: a fraction, the same value as a percentage, the value
Alphas ==
    { <<"0", "0%", Whole(0)>>,
      <<"0.0", "0.0%", Whole(0)>>,
      <<"0.07", "7%", Num(7, 100)>>,
      <<"0.25", "25%", Num(1, 4)>>,
      <<"0.5", "50%", Num(1, 2)>>,
      <<"0.75", "75.0%", Num(3, 4)>>,
      <<"1", "100%", Whole(1)>> }

\* the spellings of one colour with an alpha: comma form with and without
\* spaces, space/slash form as rgb() and as rgba(), each with the alpha as a
\* fraction or as a percentage
Spell(form, r, g, b, a) ==
    LET R == IntToString(r)
        G == IntToString(g)
        B == IntToString(b)
    IN  CASE form = "comma-spaced" ->
               Chars("rgba(") \o R \o Chars(", ") \o G \o Chars(", ") \o B \o Chars(", ") \o a \o Chars(")")
          [] form = "comma" ->
               Chars("rgba(") \o R \o Chars(",") \o G \o Chars(",") \o B \o Chars(",") \o a \o Chars(")")
          [] form = "rgb-comma" ->
               Chars("rgb(") \o R \o Chars(", ") \o G \o Chars(", ") \o B \o Chars(", ") \o a \o Chars(")")
          [] form = "rgb-slash" ->
               Chars("rgb(") \o R \o Chars(" ") \o G \o Chars(" ") \o B \o Chars(" / ") \o a \o Chars(")")
          [] form = "rgba-slash" ->
               Chars("rgba(") \o R \o Chars(" ") \o G \o Chars(" ") \o B \o Chars(" / ") \o a \o Chars(")")
          [] form = "slash-tight" ->
               Chars("rgb(") \o R \o Chars(" ") \o G \o Chars(" ") \o B \o Chars("/") \o a \o Chars(")")

AlphaForms ==
    {"comma-spaced", "comma", "rgb-comma", "rgb-slash", "rgba-slash", "slash-tight"}

\* the spellings of an opaque colour that leave the alpha out
SpellOpaque(form, r, g, b) ==
    LET R == IntToString(r)
        G == IntToString(g)
        B == IntToString(b)
    IN  CASE form = "rgb3-spaced" ->
               Chars("rgb(") \o R \o Chars(", ") \o G \o Chars(", ") \o B \o Chars(")")
          [] form = "rgb3" ->
               Chars("rgb(") \o R \o Chars(",") \o G \o Chars(",") \o B \o Chars(")")
          [] form = "rgba3" ->
               Chars("rgba(") \o R \o Chars(", ") \o G \o Chars(", ") \o B \o Chars(")")
          [] form = "rgb3-space" ->
               Chars("rgb(") \o R \o Chars(" ") \o G \o Chars(" ") \o B \o Chars(")")

OpaqueForms == {"rgb3-spaced", "rgb3", "rgba3", "rgb3-space"}

\* every supported spelling of the colours over Channels and Alphas, each with
\* the RGBA value it denotes
SpelledColors ==
    { [css  |-> Spell(f, r, g, b, Chars(a[IF pct THEN 2 ELSE 1])),
       kind |-> "spelled",
       want |-> RGBA(Num(r, 255), Num(g, 255), Num(b, 255), a[3])] :
        f \in AlphaForms, r \in Channels, g \in {0, 255}, b \in {0, 128},
        a \in Alphas, pct \in BOOLEAN }
    \cup
    { [css  |-> SpellOpaque(f, r, g, b),
       kind |-> "spelled",
       want |-> RGBA(Num(r, 255), Num(g, 255), Num(b, 255), Whole(1))] :
        f \in OpaqueForms, r \in Channels, g \in {0, 255}, b \in {0, 128} }

\* the spellings of white
WhiteColors ==
    { [css |-> Chars(t), kind |-> "white",
       want |-> RGBA(Whole(1), Whole(1), Whole(1), Whole(1))] :
        t \in {"white", "#fff", "#ffffff", "rgb(255,255,255)", "rgb(255, 255, 255)",
               "rgba(255, 255, 255, 1)", "rgba(255,255,255,1)"} }

\* strings of none of the recognised forms
UnrecognisedColors ==
    { [css |-> Chars(t), kind |-> "unrecognised", want |-> BLACK] :
        t \in {"", "bogus", "#12345", "#1234567", "#12", "#123456789", "#ggg",
               "rgb(1,2)", "rgb()", "rgba(0, 0, 0, .5)", "hsl(0, 0, 0)", "12px",
               "none", "constructor", "__proto__", "Constructor"} }

\* hex, named and hsl colours
OtherColors ==
    { [css |-> Chars(t), kind |-> "other", want |-> BLACK] :
        t \in {"#80ff0080", "#0f08", "#ABCDEF", "GREEN", "silver", "transparent",
               "rgb(300, 0, 0)", "rgba(0, 0, 0, 2)", "rgba(0, 0, 0, 150%)",
               "hsl(0, 100%, 50%)", "hsl(120, 100%, 25%)", "hsla(240, 50%, 50%, 0.5)",
               "hsl(0, 200%, 50%)", "hsla(0, 0%, 0%, 5)", "hsla(0, 0%, 0%, .)",
               "hsl(400, 100%, 50%)"} }

\* the keywords that take their value from the context
KeywordColors ==
    { [css |-> Chars(t), kind |-> "keyword", want |-> BLACK] :
        t \in {"currentColor", "inherit", "initial", "unset"} }

ColorInputs ==
    SpelledColors \cup WhiteColors \cup UnrecognisedColors \cup OtherColors
    \cup KeywordColors

\* the colours serialised by rgbaToCSS and parsed back
RoundTripColors ==
    { RGBA(r, g, b, a) :
        r \in {Whole(0), Num(1, 255), Num(3, 10), Num(1, 2), Whole(1)},
        g \in {Whole(0), Num(1, 2)},
        b \in {Num(3, 10), Whole(1)},
        a \in {Whole(0), Num(1, 10000000), Num(1, 1000000), Num(4, 1000),
               Num(1, 4), Num(1, 2), Num(999, 1000), Whole(1)} }

InitColor ==
    /\ pc = "call"
    /\ ret = <<>>
    /\ \/ /\ fn = "parseColor"
          /\ \E c \in ColorInputs, f \in Fallbacks :
                /\ c.kind = "spelled" => f = NoFallback
                /\ arg = [cssColor |-> c.css, fallbackColor |-> f,
                          kind |-> c.kind, want |-> c.want]
       \/ /\ fn = "roundTrip"
          /\ \E c \in RoundTripColors : arg = [color |-> c]

\* parseColor(cssColor, fallbackColor)
ParseColor ==
    /\ pc = "call"
    /\ fn = "parseColor"
    /\ ret' = parseColor(arg.cssColor, arg.fallbackColor)
    /\ pc' = "done"
    /\ UNCHANGED <<fn, arg>>

\* rgbaToCSS(c), of the colour given and then of the colour parsed back
Serialize ==
    /\ fn = "roundTrip"
    /\ pc \in {"call", "parsed"}
    /\ Len(ret) < 4
    /\ ret' = Append(ret, rgbaToCSS(IF pc = "call" THEN arg.color ELSE ret[Len(ret)]))
    /\ pc' = "serialized"
    /\ UNCHANGED <<fn, arg>>

\* parseColor of the string rgbaToCSS returned
ParseSerialized ==
    /\ fn = "roundTrip"
    /\ pc = "serialized"
    /\ ret' = Append(ret, parseColor(ret[Len(ret)], NoFallback))
    /\ pc' = "parsed"
    /\ UNCHANGED <<fn, arg>>

NextColor == ParseColor \/ Serialize \/ ParseSerialized

SpecColor == InitColor /\ [][NextColor]_vars

-----------------------------------------------------------------------------
(* Claims about parseColor and rgbaToCSS, under SpecColor.                 *)

RED == RGBA(Whole(1), Whole(0), Whole(0), Whole(1))

\* a channel that is a number of [0,1]
InUnit(v) == v.k = "num" /\ Le(Whole(0), v) /\ Le(v, Whole(1))

\* x and y differ by at most 1/255
Within255(x, y) ==
    /\ x.k = "num"
    /\ y.k = "num"
    /\ 255 * Abs(Sub(x, y).n) <= Sub(x, y).d

\* C3: for each of the keywords currentColor, inherit, initial and unset,
\* parseColor returns the fallback colour it was given unchanged, and opaque
\* black when it was given none.
C3_KeywordGivesFallback ==
    (pc = "done" /\ fn = "parseColor" /\ arg.kind = "keyword") =>
        ret = (IF arg.fallbackColor = NoFallback THEN BLACK ELSE arg.fallbackColor)

C3_Witness ==
    /\ pc = "done"
    /\ fn = "parseColor"
    /\ arg.cssColor = Chars("unset")
    /\ arg.fallbackColor = RED
    /\ ret = RED

\* C4: every RGBA value parseColor returns, for recognised and unrecognised
\* strings alike, has its four channels inside [0,1] and none of them NaN.
C4_ChannelsInUnitInterval ==
    (pc = "done" /\ fn = "parseColor") =>
        InUnit(ret.r) /\ InUnit(ret.g) /\ InUnit(ret.b) /\ InUnit(ret.a)

\* C5: a string of none of the recognised forms gives opaque black.
C5_UnrecognisedIsBlack ==
    (pc = "done" /\ fn = "parseColor" /\ arg.kind = "unrecognised") => ret = BLACK

C7_RoundTrip ==
    (fn = "roundTrip" /\ Len(ret) >= 2) =>
        /\ Within255(ret[2].r, arg.color.r)
        /\ Within255(ret[2].g, arg.color.g)
        /\ Within255(ret[2].b, arg.color.b)
        /\ Within255(ret[2].a, arg.color.a)
        /\ Len(ret) = 4 => ret[4] = ret[2]

-----------------------------------------------------------------------------
(* color-utils.ts: gradients                                               *)

\* the number of ( less the number of ) among the characters p..q of str
ParenDepth(str, p, q) ==
    Cardinality({r \in p..q : str[r] = "("}) - Cardinality({r \in p..q : str[r] = ")"})

\* the loop of extractBalancedParens and of extractColorValue: from position
\* p with one parenthesis open, the position after the loop, which stops
\* after the first ) that brings the depth to 0 or at the end of str
ParenScan(str, p) ==
    MinOr({q + 1 : q \in {q \in p..Len(str) :
                             str[q] = ")" /\ 1 + ParenDepth(str, p, q) = 0}},
          Len(str) + 1)

extractBalancedParens(str, startIndex) ==
    substring(str, startIndex, ParenScan(str, startIndex) - 1)

\* /(\d+)deg/
angleRe == Cap(1, Rep(DIGITS, 1, -1)) \o Str("deg")

parseGradientAngle(content) ==
    IF Search(angleRe, content, 1).ok
    THEN Whole(DigitsValue(Group(content, Search(angleRe, content, 1), 1), 10))
    ELSE IF includes(content, Chars("to right")) THEN Whole(90)
    ELSE IF includes(content, Chars("to left")) THEN Whole(270)
    ELSE IF includes(content, Chars("to bottom")) THEN Whole(180)
    ELSE IF includes(content, Chars("to top")) THEN Whole(0)
    ELSE Whole(180)

\* /^(rgba?|hsla?)\(/ on str.substring(i)
colorFuncRe ==
    Alt(<<Str("rgb") \o Maybe(Str("a")), Str("hsl") \o Maybe(Str("a"))>>) \o Str("(")

\* /^(#[a-fA-F0-9]+|\w+)/ on str.substring(i)
colorWordRe ==
    Cap(1, Alt(<<Str("#") \o Rep(HEXDIGITS, 1, -1), Rep(WORDCHARS, 1, -1)>>))

\* lines 277-295: the colour value at position i, after the white space
colorValueAt(str, i) ==
    The({IF funcMatch.ok THEN substring(str, i, ParenScan(str, funcMatch.e))
         ELSE Group(str, Match(colorWordRe, str, i), 1) :
            funcMatch \in {Match(colorFuncRe, str, i)}})

extractColorValue(str, startPos) == colorValueAt(str, Span(WS, str, startPos))

\* /^[^,]+,\s*/
anglePartRe == Bol \o RepNot({","}, 1, -1) \o Str(",") \o Rep(WS, 0, -1)

\* /^(\d+(?:\.\d+)?%?)/ on colorPart.substring(i)
stopPositionRe == Cap(1, NumberRe \o Maybe(Str("%")))

\* lines 325-333: the position written as posStr, -1 when none was written
stopPosition(posStr) ==
    IF Len(posStr) = 0 THEN Whole(-1)
    ELSE Div(parseFloat(posStr), Whole(IF posStr[Len(posStr)] = "%" THEN 100 ELSE 1))

\* lines 313-346: one turn of the while loop at position i, which is after
\* the white space and the commas: the stop that is pushed (a stop whose
\* position was not written has position -1 and is marked) and the position
\* after it
gradientStopOf(colorPart, i, colorValue, posMatch) ==
    [stop |-> [position |-> stopPosition(Group(colorPart, posMatch, 1)),
               color |-> parseColor(colorValue, NoFallback),
               autoGenerated |-> ~posMatch.ok],
     next |-> IF posMatch.ok THEN posMatch.e
              ELSE Span(WS, colorPart, i + Len(colorValue))]

gradientStopAt(colorPart, i) ==
    The({IF i > Len(colorPart) \/ Len(colorValue) = 0 THEN [next |-> 0]
         ELSE gradientStopOf(colorPart, i, colorValue,
                  Match(stopPositionRe, colorPart,
                        Span(WS, colorPart, i + Len(colorValue)))) :
            colorValue \in {extractColorValue(colorPart, i)}})

\* the while loop of parseGradientStops from position i on
RECURSIVE GradientStopsLoop(_, _, _)
GradientStopsLoop(colorPart, i, stops) ==
    CHOOSE all \in
        {IF turn.next = 0 THEN stops
         ELSE GradientStopsLoop(colorPart, turn.next, Append(stops, turn.stop)) :
            turn \in {gradientStopAt(colorPart, Span(WS \cup {","}, colorPart, i))}} : TRUE

\* lines 349-363: positions that were not written are spread evenly
normalizeStops(stops) ==
    IF Len(stops) > 1
    THEN [idx \in 1..Len(stops) |->
            [position |-> IF stops[idx].autoGenerated
                          THEN Num(idx - 1, Len(stops) - 1)
                          ELSE stops[idx].position,
             color |-> stops[idx].color]]
    ELSE stops

parseGradientStops(content) ==
    The({The({normalizeStops(stops) : stops \in {GradientStopsLoop(colorPart, 1, <<>>)}}) :
            colorPart \in {replaceMatch(content, Search(anglePartRe, content, 1))}})

\* the result null of parseGradient
NoGradient == [type |-> "null", stops |-> <<>>, angle |-> Undefined]

\* lines 230-235 and 241-245: the gradient of the text between the parentheses
\* that open at startIndex
gradientOf(type, cssGradient, startIndex) ==
    The({[type |-> type, stops |-> parseGradientStops(content),
          angle |-> IF type = "linear" THEN parseGradientAngle(content) ELSE Undefined] :
            content \in {extractBalancedParens(cssGradient, startIndex)}})

parseGradient(cssGradient) ==
    IF indexOf(cssGradient, Chars("linear-gradient("), 1) # 0
    THEN gradientOf("linear", cssGradient,
                    indexOf(cssGradient, Chars("linear-gradient("), 1) + 16)
    ELSE IF indexOf(cssGradient, Chars("radial-gradient("), 1) # 0
    THEN gradientOf("radial", cssGradient,
                    indexOf(cssGradient, Chars("radial-gradient("), 1) + 16)
    ELSE NoGradient

-----------------------------------------------------------------------------
(* Calls of parseGradient: the arguments.                                   *)

\* the largest number of colour stops written in a gradient
MaxStops == 3

\* colours as they are written in a stop, with the colour each one denotes
StopColors ==
    { <<"red", RGBA(Whole(1), Whole(0), Whole(0), Whole(1))>>,
      <<"#00ff00", RGBA(Whole(0), Whole(1), Whole(0), Whole(1))>>,
      <<"rgba(0, 0, 255, 0.5)", RGBA(Whole(0), Whole(0), Whole(1), Num(1, 2))>>,
      <<"rgba(255,0,0,0.5)", RGBA(Whole(1), Whole(0), Whole(0), Num(1, 2))>> }

\* what is written before the stops: nothing, an angle, a direction, a shape
GradientPrefixes == {"", "90deg, ", "to right, ", "circle, "}

\* the text of a gradient with the stops cs (pairs of StopColors)
RECURSIVE JoinStops(_)
JoinStops(cs) ==
    IF Len(cs) = 0 THEN <<>>
    ELSE IF Len(cs) = 1 THEN Chars(cs[1][1])
    ELSE Chars(cs[1][1]) \o Chars(", ") \o JoinStops(Tail(cs))

GradientText(type, prefix, cs) ==
    Chars(type) \o Chars("-gradient(") \o Chars(prefix) \o JoinStops(cs) \o Chars(")")

StopLists == UNION { [1..n -> StopColors] : n \in 2..MaxStops }

InitGradient ==
    /\ pc = "call"
    /\ fn = "parseGradient"
    /\ ret = <<>>
    /\ \E type \in {"linear", "radial"}, prefix \in GradientPrefixes, cs \in StopLists :
          arg = [cssGradient |-> GradientText(type, prefix, cs),
                 type |-> type, prefix |-> prefix,
                 colors |-> [i \in 1..Len(cs) |-> cs[i][2]]]

ParseGradient ==
    /\ pc = "call"
    /\ fn = "parseGradient"
    /\ ret' = parseGradient(arg.cssGradient)
    /\ pc' = "done"
    /\ UNCHANGED <<fn, arg>>

NextGradient == ParseGradient

SpecGradient == InitGradient /\ [][NextGradient]_vars

\* C8: a linear or radial gradient written with exactly three colour stops
\* and no positions, with or without a leading angle or direction, parses to
\* exactly three stops, in the order written, at positions 0, 0.5 and 1.
C8_ThreeStopsEvenlySpaced ==
    (pc = "done" /\ fn = "parseGradient" /\ Len(arg.colors) = 3) =>
        /\ ret.type = arg.type
        /\ Len(ret.stops) = 3
        /\ [i \in 1..3 |-> ret.stops[i].color] = arg.colors
        /\ [i \in 1..3 |-> ret.stops[i].position] = <<Whole(0), Num(1, 2), Whole(1)>>

-----------------------------------------------------------------------------
(* color-utils.ts: isTransparentColorString; layer-meta.ts: parseBackground *)

\* (0|0?\.0+|0%)
zeroAlphaRe ==
    Cap(1, Alt(<<Str("0"),
                 Maybe(Str("0")) \o Str(".") \o Rep({"0"}, 1, -1),
                 Str("0%")>>))

\* /rgba?\([\d.]+[,\s/]+[\d.]+[,\s/]+[\d.]+[,\s/]+(0|0?\.0+|0%)\)/
rgbaZeroRe ==
    Str("rgb") \o Maybe(Str("a")) \o Str("(")
    \o Rep(DIGITS \cup {"."}, 1, -1) \o Rep(WS \cup {",", "/"}, 1, -1)
    \o Rep(DIGITS \cup {"."}, 1, -1) \o Rep(WS \cup {",", "/"}, 1, -1)
    \o Rep(DIGITS \cup {"."}, 1, -1) \o Rep(WS \cup {",", "/"}, 1, -1)
    \o zeroAlphaRe \o Str(")")

\* /rgba?\([^)]+\/\s*(0|0?\.0+|0%)\)/
slashZeroRe ==
    Str("rgb") \o Maybe(Str("a")) \o Str("(") \o RepNot({")"}, 1, -1)
    \o Str("/") \o Rep(WS, 0, -1) \o zeroAlphaRe \o Str(")")

\* String.prototype.endsWith
endsWith(s, lit) == StartsAt(s, Len(s) - Len(lit) + 1, lit)

\* lines 383-397: the tests on the normalized colour string
isTransparentNormalized(normalized) ==
    \/ normalized = Chars("transparent")
    \/ Search(rgbaZeroRe, normalized, 1).ok
    \/ Search(slashZeroRe, normalized, 1).ok
    \/ normalized = Chars("rgba(0,0,0,0)")
    \/ StartsAt(normalized, 1, Chars("rgba(")) /\ endsWith(normalized, Chars(",0)"))

isTransparentColorString(cssColor) ==
    \/ Len(cssColor) = 0
    \/ isTransparentNormalized(SelectSeq(toLowerCase(cssColor), LAMBDA c : c \notin WS))

\* lines 232-234 and 241-243: current is pushed trimmed unless it is blank
pushTrimmed(images, current) ==
    IF Len(trim(current)) > 0 THEN Append(images, trim(current)) ELSE images

\* the for loop of splitBackgroundImages from position i on, taken one
\* entry at a time: `current` runs up to the next comma at parenDepth 0 or
\* to the end
RECURSIVE SplitLoop(_, _, _)
RECURSIVE SplitAt(_, _, _, _)
SplitLoop(bgImage, i, images) ==
    SplitAt(bgImage, i,
            MinOr({q \in i..Len(bgImage) :
                      bgImage[q] = "," /\ ParenDepth(bgImage, 1, q) = 0},
                  Len(bgImage) + 1),
            images)

\* the entry from position i up to the comma at position end, or up to the
\* end of bgImage when end is past it
SplitAt(bgImage, i, end, images) ==
    IF end > Len(bgImage) THEN pushTrimmed(images, SubSeq(bgImage, i, end - 1))
    ELSE SplitLoop(bgImage, end + 1, pushTrimmed(images, SubSeq(bgImage, i, end - 1)))

splitBackgroundImages(bgImage) == SplitLoop(bgImage, 1, <<>>)

\* /url\(['"]?([^'")\s]+)['"]?\)/
urlRe ==
    Str("url(") \o Rep({"'", "\""}, 0, 1)
    \o Cap(1, RepNot({"'", "\"", ")"} \cup WS, 1, -1))
    \o Rep({"'", "\""}, 0, 1) \o Str(")")

\* new URL(imageUrl, baseURI).href for an absolute URL and for a plain
\* relative file name against a base that ends with "/"; baseURI is <<>>
\* where there is no document, and then nothing is resolved
resolveUrl(imageUrl, baseURI) ==
    IF Len(baseURI) = 0 \/ StartsAt(imageUrl, 1, Chars("data:")) THEN imageUrl
    ELSE IF includes(imageUrl, Chars("://")) THEN imageUrl
    ELSE baseURI \o imageUrl

\* lines 270-297: the image paint of an entry with url(, for its match urlMatch
imagePaint(trimmedBg, urlMatch, styles, fills) ==
    IF urlMatch.ok
    THEN Append(fills,
             [type |-> "IMAGE",
              imageUrl |-> resolveUrl(Group(trimmedBg, urlMatch, 1), styles.baseURI),
              scaleMode |-> IF styles.backgroundSize = Chars("contain")
                            THEN "FIT" ELSE "FILL",
              opacity |-> 1, visible |-> TRUE])
    ELSE fills

\* lines 300-310: the gradient paint of an entry without url(
gradientPaint(gradient, fills) ==
    IF gradient # NoGradient
    THEN Append(fills,
             [type |-> IF gradient.type = "linear" THEN "GRADIENT_LINEAR"
                       ELSE "GRADIENT_RADIAL",
              gradientStops |-> gradient.stops,
              angle |-> gradient.angle,
              opacity |-> 1, visible |-> TRUE])
    ELSE fills

\* lines 268-311: the body of the loop over the background images
backgroundImagePaint(trimmedBg, styles, fills) ==
    IF includes(trimmedBg, Chars("url("))
    THEN imagePaint(trimmedBg, Search(urlRe, trimmedBg, 1), styles, fills)
    ELSE gradientPaint(parseGradient(trimmedBg), fills)

\* the loop of parseBackground over the background images: the paints of
\* the images from the i-th on, appended to fills
RECURSIVE BackgroundImagePaints(_, _, _, _)
BackgroundImagePaints(bgImages, i, styles, fills) ==
    IF i > Len(bgImages) THEN fills
    ELSE BackgroundImagePaints(bgImages, i + 1, styles,
             backgroundImagePaint(trim(bgImages[i]), styles, fills))

\* lines 318-329: the solid paint of the background colour
backgroundColorPaint(bgColor, color, fills) ==
    IF /\ Len(bgColor) > 0
       /\ ~isTransparentColorString(bgColor)
       /\ ~isTransparent(color)
    THEN Append(fills, [type |-> "SOLID", color |-> color,
                        opacity |-> 1, visible |-> TRUE])
    ELSE fills

parseBackground(styles) ==
    backgroundColorPaint(
        styles.backgroundColor,
        parseColor(styles.backgroundColor, parseColor(styles.color, NoFallback)),
        IF Len(styles.backgroundImage) > 0 /\ styles.backgroundImage # Chars("none")
        THEN BackgroundImagePaints(splitBackgroundImages(styles.backgroundImage),
                                   1, styles, <<>>)
        ELSE <<>>)

-----------------------------------------------------------------------------
(* Calls of parseBackground: the computed styles.                           *)

\* the largest number of entries written in background-image
MaxLayers == 2

\* entries of background-image, with the type of the paint each one is
LayerTexts ==
    { <<"IMAGE", "url(\"https://example.com/image.jpg\")">>,
      <<"IMAGE", "url(a.png)">>,
      <<"GRADIENT_LINEAR",
        "linear-gradient(to right, rgba(255,0,0,0.5), rgba(0,0,255,0.5))">>,
      <<"GRADIENT_RADIAL", "radial-gradient(circle, red, #00ff00)">> }

\* values of color, with the colour each one denotes
TextColors ==
    { <<"rgb(0, 0, 0)", BLACK>>,
      <<"rgba(0, 0, 255, 0.25)", RGBA(Whole(0), Whole(0), Whole(1), Num(1, 4))>> }

\* values of background-color, with the colour each one denotes; the colour
\* of currentColor is the text colour
BackgroundColors ==
    LET c(r, g, b, a) == RGBA(Num(r, 255), Num(g, 255), Num(b, 255), a)
    IN  { <<"", c(0, 0, 0, Whole(0))>>,
          <<"transparent", c(0, 0, 0, Whole(0))>>,
          <<"rgba(0, 0, 0, 0)", c(0, 0, 0, Whole(0))>>,
          <<"rgba(255, 0, 0, 0)", c(255, 0, 0, Whole(0))>>,
          <<"rgb(255 0 0 / 0)", c(255, 0, 0, Whole(0))>>,
          <<"rgb(255 0 0 / 0%)", c(255, 0, 0, Whole(0))>>,
          <<"#ff000000", c(255, 0, 0, Whole(0))>>,
          <<"rgba(0, 0, 0, 0.5)", c(0, 0, 0, Num(1, 2))>>,
          <<"rgba(0, 0, 0, 0.25)", c(0, 0, 0, Num(1, 4))>>,
          <<"rgba(0, 128, 255, 0.07)", c(0, 128, 255, Num(7, 100))>>,
          <<"rgb(0 0 255 / 50%)", c(0, 0, 255, Num(1, 2))>>,
          <<"rgb(255, 0, 0)", c(255, 0, 0, Whole(1))>>,
          <<"rgba(0, 0, 255)", c(0, 0, 255, Whole(1))>>,
          <<"rgba(255, 0, 0)", c(255, 0, 0, Whole(1))>>,
          <<"#ffffff", c(255, 255, 255, Whole(1))>>,
          <<"currentColor", NoFallback>> }

RECURSIVE JoinLayers(_)
JoinLayers(ls) ==
    IF Len(ls) = 0 THEN <<>>
    ELSE IF Len(ls) = 1 THEN Chars(ls[1][2])
    ELSE Chars(ls[1][2]) \o Chars(", ") \o JoinLayers(Tail(ls))

LayerLists == UNION { [1..n -> LayerTexts] : n \in 0..MaxLayers }

InitBackground ==
    /\ pc = "call"
    /\ fn = "parseBackground"
    /\ ret = <<>>
    /\ \E ls \in LayerLists, bg \in BackgroundColors, tc \in TextColors,
          size \in {"auto", "contain"}, base \in {"", "https://example.com/"},
          none \in {"", "none"} :
          arg = [styles |-> [color |-> Chars(tc[1]),
                             backgroundImage |-> IF Len(ls) = 0 THEN Chars(none)
                                                 ELSE JoinLayers(ls),
                             backgroundColor |-> Chars(bg[1]),
                             backgroundSize |-> Chars(size),
                             baseURI |-> Chars(base)],
                 kinds |-> [i \in 1..Len(ls) |-> ls[i][1]],
                 color |-> IF bg[2] = NoFallback THEN tc[2] ELSE bg[2]]

ParseBackground ==
    /\ pc = "call"
    /\ fn = "parseBackground"
    /\ ret' = parseBackground(arg.styles)
    /\ pc' = "done"
    /\ UNCHANGED <<fn, arg>>

NextBackground == ParseBackground

SpecBackground == InitBackground /\ [][NextBackground]_vars

\* C1: the fills are the image and gradient paints in the order in which
\* background-image declares them, followed by exactly one Solid paint when
\* background-color is not transparent and by nothing when it is.
C1_PaintsInOrderThenSolid ==
    (pc = "done" /\ fn = "parseBackground") =>
        [i \in 1..Len(ret) |-> ret[i].type]
            = arg.kinds \o (IF arg.color.a = Whole(0) THEN <<>> ELSE <<"SOLID">>)

\* C2: without a background image, a background-color of alpha 0 in any
\* spelling gives no fill at all, and one of any alpha above 0 gives exactly
\* one Solid paint that carries this alpha.
C2_SolidIffAlphaPositive ==
    (pc = "done" /\ fn = "parseBackground" /\ Len(arg.kinds) = 0) =>
        IF arg.color.a = Whole(0) THEN ret = <<>>
        ELSE /\ Len(ret) = 1
             /\ ret[1].type = "SOLID"
             /\ ret[1].color.a = arg.color.a

-----------------------------------------------------------------------------
(* layer-meta.ts: box-shadow and text-shadow                               *)

\* absent: what parseSingleShadow returns for an entry it discards
Null == [type |-> "null"]

\* the for loop of splitShadows from position i on, taken one entry at a
\* time: `current` runs up to the next comma at parenDepth 0, where it is
\* pushed trimmed, or to the end, where it is pushed unless it is blank
RECURSIVE ShadowSplitLoop(_, _, _)
RECURSIVE ShadowSplitAt(_, _, _, _)
ShadowSplitLoop(boxShadow, i, shadows) ==
    ShadowSplitAt(boxShadow, i,
                  MinOr({q \in i..Len(boxShadow) :
                            boxShadow[q] = "," /\ ParenDepth(boxShadow, 1, q) = 0},
                        Len(boxShadow) + 1),
                  shadows)

ShadowSplitAt(boxShadow, i, end, shadows) ==
    IF end > Len(boxShadow)
    THEN pushTrimmed(shadows, SubSeq(boxShadow, i, end - 1))
    ELSE ShadowSplitLoop(boxShadow, end + 1,
                         Append(shadows, trim(SubSeq(boxShadow, i, end - 1))))

splitShadows(boxShadow) == ShadowSplitLoop(boxShadow, 1, <<>>)

\* /rgba?\s*\([^)]+\)/
shadowRgbaRe ==
    Str("rgb") \o Maybe(Str("a")) \o Rep(WS, 0, -1) \o Str("(")
    \o RepNot({")"}, 1, -1) \o Str(")")

\* /#[a-fA-F0-9]{3,8}/
shadowHexRe == Str("#") \o Rep(HEXDIGITS, 3, 8)

\* /\b(transparent|white|black|red|green|blue|gray|grey)\b/i, for a string in
\* lower case
shadowNamedRe ==
    Wb \o Cap(1, Alt(<<Str("transparent"), Str("white"), Str("black"), Str("red"),
                       Str("green"), Str("blue"), Str("gray"), Str("grey")>>)) \o Wb

\* /-?\d+(?:\.\d+)?(?:px)?/
shadowNumberRe ==
    Maybe(Str("-")) \o Rep(DIGITS, 1, -1) \o Maybe(Str(".") \o Rep(DIGITS, 1, -1))
    \o Maybe(Str("px"))

\* line 433: the colour of a shadow that names none
DefaultShadowColor == RGBA(Whole(0), Whole(0), Whole(0), Num(1, 4))

\* the colour of the match m in cleanShadow and cleanShadow without the
\* text of the match, or the default colour and cleanShadow as it is
shadowColorOf(cleanShadow, m) ==
    IF m.ok
    THEN [color |-> parseColor(SubSeq(cleanShadow, m.b, m.e - 1), NoFallback),
          cleanShadow |-> trim(replaceFirst(cleanShadow, SubSeq(cleanShadow, m.b, m.e - 1)))]
    ELSE [color |-> DefaultShadowColor, cleanShadow |-> cleanShadow]

\* lines 435-455 (and 513-533): an rgb()/rgba() colour, else a hex colour,
\* else one of the eight colour names in any letter case
extractShadowColor(cleanShadow) ==
    The({IF rgbaMatch.ok THEN shadowColorOf(cleanShadow, rgbaMatch)
         ELSE The({IF hexMatch.ok THEN shadowColorOf(cleanShadow, hexMatch)
                   ELSE shadowColorOf(cleanShadow,
                                      Search(shadowNamedRe, toLowerCase(cleanShadow), 1)) :
                      hexMatch \in {Search(shadowHexRe, cleanShadow, 1)}}) :
            rgbaMatch \in {Search(shadowRgbaRe, cleanShadow, 1)}})

\* lines 457-464: parseFloat of every match of the number pattern
shadowNumbers(cleanShadow) ==
    The({[i \in DOMAIN numMatches |-> parseFloat(numMatches[i])] \o <<>> :
            numMatches \in {MatchAll(shadowNumberRe, cleanShadow, 1)}})

\* numbers[i] || 0, for i counted from 1
NumberOrZero(numbers, i) ==
    IF i <= Len(numbers) /\ numbers[i].k = "num" THEN numbers[i] ELSE Whole(0)

\* lines 466-480: no effect from fewer than two numbers
shadowEffect(type, color, numbers, spread) ==
    IF Len(numbers) < 2 THEN Null
    ELSE [type |-> type,
          color |-> color,
          offset |-> [x |-> NumberOrZero(numbers, 1), y |-> NumberOrZero(numbers, 2)],
          radius |-> NumberOrZero(numbers, 3),
          spread |-> spread,
          visible |-> TRUE]

\* the effect of an entry of box-shadow whose colour has been taken out
boxShadowOf(isInset, colored) ==
    The({shadowEffect(IF isInset THEN "INNER_SHADOW" ELSE "DROP_SHADOW",
                      colored.color, numbers, NumberOrZero(numbers, 4)) :
            numbers \in {shadowNumbers(colored.cleanShadow)}})

parseSingleShadow(shadowStr) ==
    boxShadowOf(includes(shadowStr, Chars("inset")),
                extractShadowColor(trim(replaceFirst(shadowStr, Chars("inset")))))

\* the effect of an entry of text-shadow whose colour has been taken out
textShadowOf(colored) ==
    The({shadowEffect("DROP_SHADOW", colored.color, numbers, Whole(0)) :
            numbers \in {shadowNumbers(colored.cleanShadow)}})

parseSingleTextShadow(shadowStr) == textShadowOf(extractShadowColor(trim(shadowStr)))

\* the effects that are not null, in order
NonNull(effects) == SelectSeq(effects, LAMBDA e : e # Null)

parseBoxShadow(styles) ==
    IF styles.boxShadow = <<>> \/ styles.boxShadow = Chars("none") THEN <<>>
    ELSE The({NonNull([i \in DOMAIN shadowParts |-> parseSingleShadow(shadowParts[i])] \o <<>>) :
                 shadowParts \in {splitShadows(styles.boxShadow)}})

parseTextShadow(styles) ==
    IF styles.textShadow = <<>> \/ styles.textShadow = Chars("none") THEN <<>>
    ELSE The({NonNull([i \in DOMAIN shadowParts |-> parseSingleTextShadow(shadowParts[i])] \o <<>>) :
                 shadowParts \in {splitShadows(styles.textShadow)}})

(* One call of parseBoxShadow or parseTextShadow on one entry: lengths, a   *)
(* colour token among them, and for box-shadow the keyword inset before or  *)
(* after.                                                                   *)

MaxLengths == 4

\* lengths as they are written, with the number each one denotes
LengthTexts ==
    << <<"2px", Whole(2)>>, <<"-4px", Whole(-4)>>, <<"0.5px", Num(1, 2)>>,
       <<"0", Whole(0)>>, <<"6px", Whole(6)>>, <<".5px", Num(1, 2)>>,
       <<"12.25px", Num(49, 4)>> >>

\* n lengths in a row of LengthTexts (taken as a ring), the first one the k-th
LengthRow(n, k) ==
    [i \in 1..n |-> LengthTexts[((k + i - 2) % Len(LengthTexts)) + 1]]

\* colour tokens, with the colour each one denotes
ShadowColors ==
    { <<"rgba(0, 0, 0, 0.25)", RGBA(Whole(0), Whole(0), Whole(0), Num(1, 4))>>,
      <<"rgba(10,20,30,0.5)", RGBA(Num(10, 255), Num(20, 255), Num(30, 255), Num(1, 2))>>,
      <<"rgb(255 0 0 / 50%)", RGBA(Whole(1), Whole(0), Whole(0), Num(1, 2))>>,
      <<"rgb(0, 0, 255)", RGBA(Whole(0), Whole(0), Whole(1), Whole(1))>>,
      <<"#0f0", RGBA(Whole(0), Whole(1), Whole(0), Whole(1))>>,
      <<"#11223344", RGBA(Num(17, 255), Num(34, 255), Num(51, 255), Num(68, 255))>>,
      <<"Red", RGBA(Whole(1), Whole(0), Whole(0), Whole(1))>>,
      <<"transparent", RGBA(Whole(0), Whole(0), Whole(0), Whole(0))>> }

RECURSIVE JoinTokens(_)
JoinTokens(tokens) ==
    IF Len(tokens) = 0 THEN <<>>
    ELSE IF Len(tokens) = 1 THEN Chars(tokens[1])
    ELSE Chars(tokens[1]) \o <<" ">> \o JoinTokens(Tail(tokens))

\* the entry: the lengths with the colour token after the at-th of them, and
\* inset before ("first") or after ("last") all of it
ShadowEntry(lengths, color, at, inset) ==
    JoinTokens((IF inset = "first" THEN <<"inset">> ELSE <<>>)
               \o [i \in 1..at |-> lengths[i][1]]
               \o <<color>>
               \o [i \in 1..(Len(lengths) - at) |-> lengths[at + i][1]]
               \o (IF inset = "last" THEN <<"inset">> ELSE <<>>))

InitShadow ==
    /\ pc = "call"
    /\ ret = <<>>
    /\ \E n \in 2..MaxLengths, k \in 1..Len(LengthTexts), c \in ShadowColors,
          inset \in {"no", "first", "last"} :
          \E at \in 0..n :
             /\ fn \in {"parseBoxShadow"} \cup (IF inset = "no" THEN {"parseTextShadow"} ELSE {})
             /\ arg = [styles |-> [boxShadow |-> ShadowEntry(LengthRow(n, k), c[1], at, inset),
                                   textShadow |-> ShadowEntry(LengthRow(n, k), c[1], at, inset)],
                       lengths |-> LengthRow(n, k),
                       color |-> c[2],
                       inset |-> inset # "no"]

ParseBoxShadow ==
    /\ pc = "call"
    /\ fn = "parseBoxShadow"
    /\ ret' = parseBoxShadow(arg.styles)
    /\ pc' = "done"
    /\ UNCHANGED <<fn, arg>>

ParseTextShadow ==
    /\ pc = "call"
    /\ fn = "parseTextShadow"
    /\ ret' = parseTextShadow(arg.styles)
    /\ pc' = "done"
    /\ UNCHANGED <<fn, arg>>

NextShadow == ParseBoxShadow \/ ParseTextShadow

SpecShadow == InitShadow /\ [][NextShadow]_vars

\* the i-th of the lengths written in the entry, 0 when there are fewer
WrittenLength(i) == IF i <= Len(arg.lengths) THEN arg.lengths[i][2] ELSE Whole(0)

\* C9: an entry of 2 to 4 lengths and one colour token in any position gives
\* exactly one effect: its offset is the first and the second length, its
\* radius the third (0 if absent), its spread the fourth (0 if absent), its
\* colour the colour of the token, and no number inside the token is taken for
\* a length; box-shadow gives INNER_SHADOW iff the entry contains inset and
\* DROP_SHADOW otherwise, text-shadow gives DROP_SHADOW with spread 0.
C9_ShadowOfEntry ==
    (pc = "done" /\ fn \in {"parseBoxShadow", "parseTextShadow"}) =>
        /\ Len(ret) = 1
        /\ ret[1].offset = [x |-> WrittenLength(1), y |-> WrittenLength(2)]
        /\ ret[1].radius = WrittenLength(3)
        /\ ret[1].color = arg.color
        /\ ret[1].spread = (IF fn = "parseBoxShadow" THEN WrittenLength(4) ELSE Whole(0))
        /\ ret[1].type = (IF fn = "parseBoxShadow" /\ arg.inset THEN "INNER_SHADOW"
                          ELSE "DROP_SHADOW")

\* the same for the entries none of whose lengths begins with the decimal
\* point
ShadowOfDigitLedLengths ==
    (\A i \in DOMAIN arg.lengths : arg.lengths[i][1] # ".5px") => C9_ShadowOfEntry

-----------------------------------------------------------------------------
(* layer-meta.ts: convertElement, the item spacing of an auto-layout from   *)
(* the positions of the children (lines 1405-1492)                          *)

\* line 1440
GAP_TOLERANCE == 4

\* Math.max(0, x)
Max0(x) == IF Lt(x, Whole(0)) THEN Whole(0) ELSE x

\* lines 1417-1420 without Math.max: the distance from the end of curr to the
\* start of next along the primary axis, rounded
gapBetweenUnclamped(isVertical, curr, next) ==
    Round(IF isVertical THEN Sub(next.y, Add(curr.y, curr.height))
          ELSE Sub(next.x, Add(curr.x, curr.width)))

\* lines 1417-1420: Math.round(Math.max(0, gap))
gapBetween(isVertical, curr, next) ==
    Round(Max0(IF isVertical THEN Sub(next.y, Add(curr.y, curr.height))
               ELSE Sub(next.x, Add(curr.x, curr.width))))

\* line 1408: children.filter(c => !c.isAbsolutelyPositioned)
FlowChildren(children) == SelectSeq(children, LAMBDA c : ~c.isAbsolutelyPositioned)

\* lines 1413-1421: the gaps between consecutive flow children
gapsOf(isVertical, flowChildren) ==
    [i \in 1..(Len(flowChildren) - 1) |->
        gapBetween(isVertical, flowChildren[i], flowChildren[i + 1])] \o <<>>

\* gaps.reduce((a, b) => a + b, 0)
RECURSIVE SumOf(_)
SumOf(gaps) == IF Len(gaps) = 0 THEN 0 ELSE gaps[1] + SumOf(Tail(gaps))

\* lines 1432 and 1441: Math.round(sum / gaps.length)
avgGapOf(gaps) == Round(Num(SumOf(gaps), Len(gaps)))

minGapOf(gaps) == CHOOSE g \in {gaps[i] : i \in DOMAIN gaps} : \A i \in DOMAIN gaps : g <= gaps[i]

maxGapOf(gaps) == CHOOSE g \in {gaps[i] : i \in DOMAIN gaps} : \A i \in DOMAIN gaps : g >= gaps[i]

\* lines 1463-1488: the transparent frame around a child that is followed by
\* extraGap more than the item spacing
wrapperOf(child, isVertical, extraGap, counterAxisAlignItems) ==
    [type |-> "FRAME",
     name |-> child.name,
     x |-> child.x,
     y |-> child.y,
     width |-> child.width,
     height |-> Add(child.height, Whole(IF isVertical THEN extraGap ELSE 0)),
     fills |-> <<>>,
     strokes |-> Null,
     effects |-> <<>>,
     opacity |-> Whole(1),
     visible |-> TRUE,
     isAbsolutelyPositioned |-> FALSE,
     autoLayout |-> [mode |-> IF isVertical THEN "VERTICAL" ELSE "HORIZONTAL",
                     counterAxisAlignItems |-> counterAxisAlignItems,
                     paddingTop |-> Whole(0),
                     paddingRight |-> Whole(IF isVertical THEN 0 ELSE extraGap),
                     paddingBottom |-> Whole(IF isVertical THEN extraGap ELSE 0),
                     paddingLeft |-> Whole(0),
                     itemSpacing |-> Whole(0)],
     children |-> <<[child EXCEPT !.x = Whole(0), !.y = Whole(0)]>>]

\* the number of flow children among the first ci children
FlowIndex(children, ci) == Len(FlowChildren(SubSeq(children, 1, ci)))

\* the gap before a flow child instead of the gap after it, -1 for none
gapBefore(children, gaps, ci) ==
    IF ~children[ci].isAbsolutelyPositioned /\ FlowIndex(children, ci) >= 2
    THEN gaps[FlowIndex(children, ci) - 1] ELSE -1

\* lines 1452-1490: flowChildGaps.get(children[ci]), -1 for undefined
gapAfter(children, gaps, ci) ==
    IF ~children[ci].isAbsolutelyPositioned /\ FlowIndex(children, ci) <= Len(gaps)
    THEN gaps[FlowIndex(children, ci)] ELSE -1

\* lines 1458-1490 with gapAfter > minGap in the place of
\* gapAfter > minGap + GAP_TOLERANCE
wrapChildrenAboveMin(children, gaps, isVertical, counterAxisAlignItems) ==
    [ci \in DOMAIN children |->
        IF gapAfter(children, gaps, ci) > minGapOf(gaps)
        THEN wrapperOf(children[ci], isVertical, gapAfter(children, gaps, ci) - minGapOf(gaps),
                       counterAxisAlignItems)
        ELSE children[ci]] \o <<>>

\* lines 1458-1490: the children, those followed by more than the item spacing
\* and the tolerance wrapped
wrapChildren(children, gaps, isVertical, counterAxisAlignItems) ==
    [ci \in DOMAIN children |->
        IF gapAfter(children, gaps, ci) > minGapOf(gaps) + GAP_TOLERANCE
        THEN wrapperOf(children[ci], isVertical, gapAfter(children, gaps, ci) - minGapOf(gaps),
                       counterAxisAlignItems)
        ELSE children[ci]] \o <<>>

\* lines 1423-1491 for the gaps found
spacingFromGaps(autoLayout, display, children, gaps) ==
    IF display \in {"flex", "inline-flex", "grid", "inline-grid"}
    THEN [autoLayout |-> IF Lt(Whole(4), NumAbs(Sub(Whole(avgGapOf(gaps)),
                                                       autoLayout.itemSpacing)))
                         THEN [autoLayout EXCEPT !.itemSpacing = Whole(avgGapOf(gaps))]
                         ELSE autoLayout,
          children |-> children]
    ELSE IF maxGapOf(gaps) - minGapOf(gaps) <= GAP_TOLERANCE
    THEN [autoLayout |-> [autoLayout EXCEPT !.itemSpacing = Whole(avgGapOf(gaps))],
          children |-> children]
    ELSE [autoLayout |-> [autoLayout EXCEPT !.itemSpacing = Whole(minGapOf(gaps))],
          children |-> wrapChildren(children, gaps, autoLayout.mode = "VERTICAL",
                                    autoLayout.counterAxisAlignItems)]

\* lines 1406-1492: the auto-layout and the children of the layer once the
\* item spacing has been worked out
inferItemSpacing(autoLayout, display, children) ==
    IF autoLayout # Null /\ Len(children) >= 2 /\ Len(FlowChildren(children)) >= 2
    THEN The({spacingFromGaps(autoLayout, display, children, gaps) :
                 gaps \in {gapsOf(autoLayout.mode = "VERTICAL", FlowChildren(children))}})
    ELSE [autoLayout |-> autoLayout, children |-> children]

(* One run of the item-spacing pass of convertElement: a container with or  *)
(* without an auto-layout and up to MaxChildren flow children laid out one  *)
(* after the other along the primary axis, with the gaps drawn from         *)
(* GapValues between them (negative when they overlap) and possibly an      *)
(* absolutely positioned child among them.                                  *)

MaxChildren == 3

GapValues ==
    {Whole(-10), Whole(-3), Whole(0), Num(5, 2), Num(7, 2), Whole(10), Whole(12), Whole(30)}

GapLists == UNION {[1..n -> GapValues] : n \in 0..(MaxChildren - 1)}

RECURSIVE SumNum(_)
SumNum(xs) == IF Len(xs) = 0 THEN Whole(0) ELSE Add(xs[1], SumNum(Tail(xs)))

\* the i-th flow child: 10 long, 20 across, after i - 1 children and gaps
FlowChild(i, gaps, isVertical) ==
    [type |-> "FRAME",
     name |-> <<"a", "b", "c", "d", "e">>[i],
     x |-> IF isVertical THEN Whole(0)
           ELSE Add(Whole(10 * (i - 1)), SumNum(SubSeq(gaps, 1, i - 1))),
     y |-> IF isVertical THEN Add(Whole(10 * (i - 1)), SumNum(SubSeq(gaps, 1, i - 1)))
           ELSE Whole(0),
     width |-> Whole(IF isVertical THEN 20 ELSE 10),
     height |-> Whole(IF isVertical THEN 10 ELSE 20),
     isAbsolutelyPositioned |-> FALSE]

AbsoluteChild ==
    [type |-> "FRAME", name |-> "overlay", x |-> Whole(5), y |-> Whole(5),
     width |-> Whole(100), height |-> Whole(100), isAbsolutelyPositioned |-> TRUE]

\* the children for the gaps, the absolutely positioned one the second if any
ChildrenOf(gaps, isVertical, withAbsolute) ==
    <<FlowChild(1, gaps, isVertical)>>
    \o (IF withAbsolute THEN <<AbsoluteChild>> ELSE <<>>)
    \o [i \in 1..Len(gaps) |-> FlowChild(i + 1, gaps, isVertical)]

\* the auto-layout parseAutoLayout gave the container, Null when it gave none
AutoLayouts ==
    {Null}
    \cup {[mode |-> mode, counterAxisAlignItems |-> "MIN", itemSpacing |-> spacing] :
             mode \in {"VERTICAL", "HORIZONTAL"}, spacing \in {Whole(0), Whole(10)}}

\* a block container has no CSS gap, a flex container has an auto-layout
Containers ==
    {c \in [display : {"block", "flex"}, autoLayout : AutoLayouts] :
        IF c.autoLayout = Null THEN c.display = "block"
        ELSE c.display = "flex" \/ c.autoLayout.itemSpacing = Whole(0)}

InitLayout ==
    /\ pc = "call"
    /\ fn = "convertElement"
    /\ ret = <<>>
    /\ \E gaps \in GapLists, c \in Containers, withAbsolute \in BOOLEAN :
          arg = [autoLayout |-> c.autoLayout,
                 display |-> c.display,
                 children |-> ChildrenOf(gaps,
                                         IF c.autoLayout = Null THEN TRUE
                                         ELSE c.autoLayout.mode = "VERTICAL",
                                         withAbsolute),
                 gaps |-> gaps]

InferItemSpacing ==
    /\ pc = "call"
    /\ fn = "convertElement"
    /\ ret' = inferItemSpacing(arg.autoLayout, arg.display, arg.children)
    /\ pc' = "done"
    /\ UNCHANGED <<fn, arg>>

NextLayout == InferItemSpacing

SpecLayout == InitLayout /\ [][NextLayout]_vars

\* the gaps written for the container all lie within 4 units of each other
UniformGaps ==
    \A i, j \in DOMAIN arg.gaps : Le(Sub(arg.gaps[i], arg.gaps[j]), Whole(4))

\* the container of the claim: block flow, an auto-layout, two flow children
\* or more, uniform gaps, and the pass has run
UniformBlockDone ==
    /\ pc = "done"
    /\ fn = "convertElement"
    /\ arg.display = "block"
    /\ arg.autoLayout # Null
    /\ Len(arg.gaps) >= 1
    /\ UniformGaps

FlowPosition(k) ==
    CHOOSE ci \in DOMAIN arg.children :
        /\ ~arg.children[ci].isAbsolutelyPositioned
        /\ Cardinality({cj \in 1..ci : ~arg.children[cj].isAbsolutelyPositioned}) = k

\* the node is a synthesized frame around the child, with `extra` units of
\* padding after it along the primary axis and none elsewhere
IsWrapperOf(node, child, extra) ==
    /\ "autoLayout" \in DOMAIN node
    /\ node.type = "FRAME"
    /\ node.children = <<[child EXCEPT !.x = Whole(0), !.y = Whole(0)]>>
    /\ node.autoLayout.mode = arg.autoLayout.mode
    /\ node.autoLayout.itemSpacing = Whole(0)
    /\ IF arg.autoLayout.mode = "VERTICAL"
       THEN /\ node.autoLayout.paddingBottom = Whole(extra)
            /\ node.autoLayout.paddingRight = Whole(0)
       ELSE /\ node.autoLayout.paddingRight = Whole(extra)
            /\ node.autoLayout.paddingBottom = Whole(0)

\* three block-flow siblings with gaps of 10 and 30, and the pass has run
UnevenBlockDone ==
    /\ pc = "done"
    /\ fn = "convertElement"
    /\ arg.display = "block"
    /\ arg.autoLayout # Null
    /\ arg.gaps = <<Whole(10), Whole(30)>>

OrZero(x) == IF x.k # "num" \/ x.n = 0 THEN Whole(0) ELSE x

parseJustifyContent(justify) ==
    CASE justify = "center" -> "CENTER"
      [] justify \in {"flex-end", "end"} -> "MAX"
      [] justify \in {"space-between", "space-around", "space-evenly"} -> "SPACE_BETWEEN"
      [] justify \in {"flex-start", "start"} -> "MIN"
      [] OTHER -> "MIN"

parseAlignItems(align) ==
    CASE align = "center" -> "CENTER"
      [] align \in {"flex-end", "end"} -> "MAX"
      [] align = "baseline" -> "BASELINE"
      [] align \in {"stretch", "normal"} -> "MIN"
      [] align \in {"flex-start", "start"} -> "MIN"
      [] OTHER -> "MIN"

\* gap.split(/\s+/)[0]: the text before the first run of white space.
FirstField(s) ==
    IF \E i \in 1..Len(s) : s[i] \in WS
    THEN SubSeq(s, 1, (CHOOSE i \in 1..Len(s) :
                          s[i] \in WS /\ \A j \in 1..(i - 1) : s[j] \notin WS) - 1)
    ELSE s

parseGap(gap) ==
    IF gap = <<>> \/ gap = Chars("normal") THEN Whole(0)
    ELSE OrZero(parseFloat(FirstField(gap)))

\* The fields of s.split(/\s+/) that are neither empty nor 'none', as the
\* positions where they start.
FieldStarts(s) ==
    {i \in 1..Len(s) : s[i] \notin WS /\ (i = 1 \/ s[i - 1] \in WS)}

FieldAt(s, i) ==
    SubSeq(s, i, CHOOSE e \in i..Len(s) :
                    /\ \A j \in i..e : s[j] \notin WS
                    /\ (e = Len(s) \/ s[e + 1] \in WS))

columnCountOf(gridTemplateColumns) ==
    IF gridTemplateColumns # <<>> /\ gridTemplateColumns # Chars("none")
    THEN Cardinality({i \in FieldStarts(gridTemplateColumns) :
                         FieldAt(gridTemplateColumns, i) # Chars("none")})
    ELSE 1

parseGridJustifyContent(justify) ==
    CASE justify = "center" -> "CENTER"
      [] justify \in {"end", "flex-end"} -> "MAX"
      [] justify = "space-between" -> "SPACE_BETWEEN"
      [] OTHER -> "MIN"

parseGridAlignItems(align) ==
    CASE align = "center" -> "CENTER"
      [] align \in {"end", "flex-end"} -> "MAX"
      [] align = "baseline" -> "BASELINE"
      [] OTHER -> "MIN"

gridItemSpacing(isHorizontal, columnGap, rowGap, gap) ==
    IF isHorizontal
    THEN (IF columnGap.n # 0 THEN columnGap ELSE gap)
    ELSE (IF rowGap.n # 0 THEN rowGap ELSE gap)

gridLayout(styles, isHorizontal) ==
    [mode |-> IF isHorizontal THEN "HORIZONTAL" ELSE "VERTICAL",
     primaryAxisAlignItems |->
         parseGridJustifyContent(IF styles.justifyContent # "" THEN styles.justifyContent
                                 ELSE styles.justifyItems),
     counterAxisAlignItems |->
         parseGridAlignItems(IF styles.alignContent \notin {"", "normal", "stretch"}
                             THEN styles.alignContent ELSE styles.alignItems),
     paddingTop |-> OrZero(parseFloat(styles.paddingTop)),
     paddingRight |-> OrZero(parseFloat(styles.paddingRight)),
     paddingBottom |-> OrZero(parseFloat(styles.paddingBottom)),
     paddingLeft |-> OrZero(parseFloat(styles.paddingLeft)),
     itemSpacing |-> gridItemSpacing(isHorizontal,
                                     OrZero(parseFloat(styles.columnGap)),
                                     OrZero(parseFloat(styles.rowGap)),
                                     OrZero(parseFloat(styles.gap))),
     primaryAxisSizingMode |-> "AUTO",
     counterAxisSizingMode |-> "AUTO",
     wrap |-> isHorizontal,
     counterAxisStretch |-> FALSE]

parseGridAsAutoLayout(styles) ==
    gridLayout(styles, columnCountOf(styles.gridTemplateColumns) > 1)

isStretch(alignItems) == alignItems = "stretch"

flexLayout(styles) ==
    [mode |-> IF styles.flexDirection \in {"column", "column-reverse"}
              THEN "VERTICAL" ELSE "HORIZONTAL",
     primaryAxisAlignItems |-> parseJustifyContent(styles.justifyContent),
     counterAxisAlignItems |-> parseAlignItems(styles.alignItems),
     paddingTop |-> OrZero(parseFloat(styles.paddingTop)),
     paddingRight |-> OrZero(parseFloat(styles.paddingRight)),
     paddingBottom |-> OrZero(parseFloat(styles.paddingBottom)),
     paddingLeft |-> OrZero(parseFloat(styles.paddingLeft)),
     itemSpacing |-> parseGap(styles.gap),
     primaryAxisSizingMode |-> "AUTO",
     counterAxisSizingMode |-> "AUTO",
     wrap |-> styles.flexWrap = "wrap",
     counterAxisStretch |-> isStretch(styles.alignItems)]

flowLayout(styles, mode, counterAlign) ==
    [mode |-> mode,
     primaryAxisAlignItems |-> "MIN",
     counterAxisAlignItems |-> counterAlign,
     paddingTop |-> OrZero(parseFloat(styles.paddingTop)),
     paddingRight |-> OrZero(parseFloat(styles.paddingRight)),
     paddingBottom |-> OrZero(parseFloat(styles.paddingBottom)),
     paddingLeft |-> OrZero(parseFloat(styles.paddingLeft)),
     itemSpacing |-> Whole(0),
     primaryAxisSizingMode |-> "AUTO",
     counterAxisSizingMode |-> "AUTO",
     wrap |-> FALSE,
     counterAxisStretch |-> FALSE]

parseAutoLayout(styles) ==
    CASE styles.position \in {"absolute", "fixed"} -> Null
      [] styles.display \in {"grid", "inline-grid"} -> parseGridAsAutoLayout(styles)
      [] styles.display \in {"flex", "inline-flex"} -> flexLayout(styles)
      [] styles.display \in {"block", "list-item", "flow-root",
                             "table", "table-row-group", "table-row"} ->
            flowLayout(styles, "VERTICAL",
                       IF styles.textAlign = "center" THEN "CENTER" ELSE "MIN")
      [] styles.display \in {"inline-block", "inline", "table-cell"} ->
            flowLayout(styles, "HORIZONTAL", "CENTER")
      [] OTHER -> Null

(***************************************************************************)
(* Computed styles of the elements the specifications convert.             *)
(***************************************************************************)
DefaultStyles ==
    [display |-> "block", position |-> "static", visibility |-> "visible",
     opacity |-> Chars("1"), zIndex |-> Chars("auto"),
     flexDirection |-> "row", flexWrap |-> "nowrap",
     alignItems |-> "normal", alignContent |-> "normal",
     justifyContent |-> "normal", justifyItems |-> "normal",
     textAlign |-> "start",
     gap |-> Chars("normal"), columnGap |-> Chars("normal"), rowGap |-> Chars("normal"),
     gridTemplateColumns |-> Chars("none"),
     paddingTop |-> Chars("0px"), paddingRight |-> Chars("0px"),
     paddingBottom |-> Chars("0px"), paddingLeft |-> Chars("0px"),
     backgroundColor |-> Chars("rgba(0, 0, 0, 0)"), backgroundImage |-> Chars("none"),
     color |-> Chars("rgb(0, 0, 0)"),
     fontWeight |-> Chars("400"), fontStyle |-> "normal", fontSize |-> Chars("16px"),
     textDecorationLine |-> Chars("none"),
     textDecoration |-> Chars("none solid rgb(0, 0, 0)"),
     boxShadow |-> Chars("none"), textShadow |-> Chars("none"),
     borderTopWidth |-> Chars("0px"), borderRightWidth |-> Chars("0px"),
     borderBottomWidth |-> Chars("0px"), borderLeftWidth |-> Chars("0px"),
     borderTopStyle |-> "none", borderRightStyle |-> "none",
     borderBottomStyle |-> "none", borderLeftStyle |-> "none",
     borderTopColor |-> Chars("rgb(0, 0, 0)"), borderRightColor |-> Chars("rgb(0, 0, 0)"),
     borderBottomColor |-> Chars("rgb(0, 0, 0)"), borderLeftColor |-> Chars("rgb(0, 0, 0)"),
     borderRadius |-> Chars("0px"), maxWidth |-> Chars("none"),
     appearance |-> "auto", objectFit |-> "fill",
     content |-> Chars("none"),
     width |-> Chars("auto"), height |-> Chars("auto"),
     left |-> Chars("auto"), top |-> Chars("auto")]

AlignItemsValues ==
    {"normal", "stretch", "center", "flex-start", "flex-end", "start", "end", "baseline"}

LayoutDisplays ==
    {"flex", "inline-flex", "grid", "inline-grid", "block", "inline-block",
     "inline", "table-cell", "contents", "none"}

GapTexts == {Chars("normal"), Chars(""), Chars("8px"), Chars("4px 12px"), Chars("1.5px")}

TrackTexts == {Chars("none"), Chars("200px"), Chars("100px 100px"), Chars("none 50px")}

InitAutoLayout ==
    /\ pc = "call"
    /\ fn = "parseAutoLayout"
    /\ ret = Null
    /\ arg \in {[DefaultStyles EXCEPT !.display = d, !.position = p, !.alignItems = a,
                                      !.flexDirection = f, !.gap = g, !.columnGap = cg,
                                      !.gridTemplateColumns = t, !.textAlign = ta] :
                   d \in LayoutDisplays, p \in {"static", "relative", "absolute", "fixed"},
                   a \in AlignItemsValues, f \in {"row", "column"},
                   g \in GapTexts, cg \in {Chars("normal"), Chars("16px")},
                   t \in TrackTexts, ta \in {"start", "center"}}

ParseAutoLayout ==
    /\ pc = "call" /\ fn = "parseAutoLayout"
    /\ ret' = parseAutoLayout(arg)
    /\ pc' = "done"
    /\ UNCHANGED <<fn, arg>>

NextAutoLayout == ParseAutoLayout

SpecAutoLayout == InitAutoLayout /\ [][NextAutoLayout]_vars

FlexParsed ==
    /\ pc = "done" /\ fn = "parseAutoLayout"
    /\ arg.display \in {"flex", "inline-flex"}
    /\ arg.position \notin {"absolute", "fixed"}

\* C20: for a flex or inline-flex container, align-items stretch and normal
\* both give counterAxisAlignItems MIN with counterAxisStretch set, and every
\* other align-items value leaves counterAxisStretch unset.
C20_StretchAndNormalSetFlag ==
    FlexParsed =>
        IF arg.alignItems \in {"stretch", "normal"}
        THEN ret.counterAxisAlignItems = "MIN" /\ ret.counterAxisStretch
        ELSE ~ret.counterAxisStretch

\* What the code does for align-items: normal.
NormalLeavesFlagUnset ==
    (FlexParsed /\ arg.alignItems = "normal") =>
        ret.counterAxisAlignItems = "MIN" /\ ~ret.counterAxisStretch

(***************************************************************************)
(* parseBorder (layer-meta.ts).  The four widths and colours are strings,  *)
(* the four border styles are keywords.                                    *)
(***************************************************************************)
\* a || b || c || d on strings: the first that is not empty, else the last
FirstNonEmpty(values, empty) ==
    IF \E i \in DOMAIN values : values[i] # empty
    THEN values[Min({i \in DOMAIN values : values[i] # empty})]
    ELSE values[Len(values)]

\* lines 344-347
sideWidths(styles) ==
    [top |-> OrZero(parseFloat(styles.borderTopWidth)),
     right |-> OrZero(parseFloat(styles.borderRightWidth)),
     bottom |-> OrZero(parseFloat(styles.borderBottomWidth)),
     left |-> OrZero(parseFloat(styles.borderLeftWidth))]

\* Math.max of two numbers
NumMax(x, y) == IF Lt(x, y) THEN y ELSE x

\* line 350
maxWidthOf(w) == NumMax(NumMax(w.top, w.right), NumMax(w.bottom, w.left))

\* line 353
borderColorStr(styles) ==
    FirstNonEmpty(<<styles.borderTopColor, styles.borderRightColor,
                    styles.borderBottomColor, styles.borderLeftColor>>, <<>>)

\* line 354
borderStyleOf(styles) ==
    FirstNonEmpty(<<styles.borderTopStyle, styles.borderRightStyle,
                    styles.borderBottomStyle, styles.borderLeftStyle>>, "")

\* lines 361-373: the stroke (an absent dashPattern or individualWeights is Null)
strokeOf(color, w, maxWidth, borderStyle) ==
    [color |-> color,
     weight |-> maxWidth,
     position |-> "INSIDE",
     dashPattern |-> IF borderStyle = "dashed"
                     THEN <<Mul(maxWidth, Whole(2)), maxWidth>> ELSE Null,
     individualWeights |-> IF w.top = w.right /\ w.right = w.bottom /\ w.bottom = w.left
                           THEN Null ELSE w]

\* lines 356-374
strokeOfColor(color, w, maxWidth, borderStyle) ==
    IF isTransparent(color) THEN Null ELSE strokeOf(color, w, maxWidth, borderStyle)

\* lines 351-376
borderOf(styles, textColor, w, maxWidth) ==
    IF ~Lt(Whole(0), maxWidth) THEN Null
    ELSE IF borderColorStr(styles) = <<>> \/ borderStyleOf(styles) = "none" THEN Null
    ELSE strokeOfColor(parseColor(borderColorStr(styles), textColor), w, maxWidth,
                       borderStyleOf(styles))

\* lines 337-378
parseBorder(styles) ==
    The({borderOf(styles, parseColor(styles.color, NoFallback), w, maxWidthOf(w)) :
            w \in {sideWidths(styles)}})

(***************************************************************************)
(* Calls of parseBorder.  A side is a width, a border style and a colour   *)
(* as a style declaration holds them: the width of a side whose style is   *)
(* none is 0px, and a side that sets no colour has the text colour.        *)
(***************************************************************************)
SideNames == <<"top", "right", "bottom", "left">>

BorderTextColors == {Chars("rgb(0, 0, 0)"), Chars("rgb(0, 128, 0)")}

Side(width, style, color) == [width |-> Chars(width), style |-> style, color |-> Chars(color)]

\* the sides that set a colour
ColoredSides ==
    {Side("1px", "solid", "rgb(255, 0, 0)"),
     Side("2px", "solid", "rgb(0, 0, 255)"),
     Side("1px", "dashed", "rgb(255, 0, 0)"),
     Side("0px", "solid", "rgb(255, 0, 0)"),
     Side("1px", "solid", "rgba(0, 0, 0, 0)"),
     Side("1px", "solid", "currentColor")}

\* the side that has no border
NoSide(textColor) == [width |-> Chars("0px"), style |-> "none", color |-> textColor]

BorderStyles(sides, textColor) ==
    [DefaultStyles EXCEPT
        !.color = textColor,
        !.borderTopWidth = sides[1].width, !.borderRightWidth = sides[2].width,
        !.borderBottomWidth = sides[3].width, !.borderLeftWidth = sides[4].width,
        !.borderTopStyle = sides[1].style, !.borderRightStyle = sides[2].style,
        !.borderBottomStyle = sides[3].style, !.borderLeftStyle = sides[4].style,
        !.borderTopColor = sides[1].color, !.borderRightColor = sides[2].color,
        !.borderBottomColor = sides[3].color, !.borderLeftColor = sides[4].color]

InitBorder ==
    /\ pc = "call"
    /\ fn = "parseBorder"
    /\ ret = <<>>
    /\ arg \in UNION {{[sides |-> sides, styles |-> BorderStyles(sides, textColor)] :
                           sides \in [1..4 -> ColoredSides \cup {NoSide(textColor)}]} :
                        textColor \in BorderTextColors}

\* parseBorder(styles)
ParseBorder ==
    /\ pc = "call"
    /\ fn = "parseBorder"
    /\ ret' = parseBorder(arg.styles)
    /\ pc' = "done"
    /\ UNCHANGED <<fn, arg>>

NextBorder == ParseBorder

SpecBorder == InitBorder /\ [][NextBorder]_vars

BorderDone == pc = "done" /\ fn = "parseBorder"

SideWidth(side) == parseFloat(side.width)

\* the colour a side is drawn in
SideColor(side) == parseColor(side.color, parseColor(arg.styles.color, NoFallback))

\* a side that draws a border
IsDrawn(side) ==
    /\ Lt(Whole(0), SideWidth(side))
    /\ side.style # "none"
    /\ ~isTransparent(SideColor(side))

WidestSide == CHOOSE i \in 1..4 : \A j \in 1..4 : Le(SideWidth(arg.sides[j]), SideWidth(arg.sides[i]))

WidthsAllEqual == \A i, j \in 1..4 : SideWidth(arg.sides[i]) = SideWidth(arg.sides[j])

WideSides == {i \in 1..4 : Lt(Whole(0), SideWidth(arg.sides[i]))}

\* the stroke the four sides describe
IsStrokeOfSides(stroke) ==
    /\ stroke # Null
    /\ stroke.weight = SideWidth(arg.sides[WidestSide])
    /\ (stroke.individualWeights # Null) <=> ~WidthsAllEqual
    /\ stroke.individualWeights # Null =>
          \A i \in 1..4 : stroke.individualWeights[SideNames[i]] = SideWidth(arg.sides[i])
    /\ (\A i \in WideSides : arg.sides[i].style = "dashed") =>
          stroke.dashPattern = <<Mul(stroke.weight, Whole(2)), stroke.weight>>
    /\ (\A i \in WideSides : arg.sides[i].style # "dashed") => stroke.dashPattern = Null

\* C21: when at least one side has a positive width, a border style other
\* than none and a colour that is not transparent, parseBorder returns a
\* stroke whose weight is the largest of the four widths, whose
\* individualWeights is present exactly when the widths are not all equal,
\* and whose dashPattern is [2 x weight, weight] exactly when the border is
\* dashed.
C21_DrawnSideGivesStroke ==
    (BorderDone /\ \E i \in 1..4 : IsDrawn(arg.sides[i])) => IsStrokeOfSides(ret)

\* What the code does: the stroke is returned when the top side has a style
\* other than none and a colour that is not transparent, whatever side is
\* drawn; the dash pattern follows the style of the top side.
TopSideDecidesStroke ==
    BorderDone =>
        IF /\ WideSides # {}
           /\ arg.sides[1].style # "none"
           /\ ~isTransparent(SideColor(arg.sides[1]))
        THEN /\ ret # Null
             /\ ret.weight = SideWidth(arg.sides[WidestSide])
             /\ (ret.individualWeights # Null) <=> ~WidthsAllEqual
             /\ (ret.dashPattern # Null) <=> arg.sides[1].style = "dashed"
        ELSE ret = Null

\* C22: the colour of the stroke parseBorder returns is the colour of a side
\* whose width is greater than 0, currentColor standing for the text colour
\* of the element.
C22_ColorOfSideWithWidth ==
    (BorderDone /\ ret # Null) =>
        \E i \in WideSides : ret.color = SideColor(arg.sides[i])

\* What the code does: the colour is that of the top side.
ColorOfTopSide ==
    (BorderDone /\ ret # Null) => ret.color = SideColor(arg.sides[1])

(***************************************************************************)
(* The element tree (layer-meta.ts, domToLayer and convertElement).        *)
(* An element is a record: tagName in lower case, id, inputType and src    *)
(* attributes, computed styles, rect (getBoundingClientRect), text (the    *)
(* content of its direct text nodes, which come before its child           *)
(* elements), textRect (the box a Range over that text measures), children *)
(* (its child elements) and before/after (the computed styles of its       *)
(* pseudo-elements).  Elements have no class or aria-label, and innerText  *)
(* is the textContent with a line break for every <br>.                    *)
(***************************************************************************)
isNonVisualElement(tagName) ==
    tagName \in {"script", "style", "link", "meta", "head", "title", "noscript",
                 "template", "slot", "br", "wbr", "defs", "clipPath", "mask",
                 "symbol", "use", "colgroup", "col"}

isTextElement(tagName) ==
    tagName \in {"p", "span", "h1", "h2", "h3", "h4", "h5", "h6", "a", "label",
                 "strong", "em", "b", "u", "small", "mark", "del", "ins", "sub",
                 "sup", "code", "pre", "blockquote", "cite", "q", "button",
                 "li", "dt", "dd"}

RECURSIVE textContentOf(_)
textContentOf(element) ==
    IF element.children = <<>> THEN element.text
    ELSE element.text \o textContentOf(Head(element.children))
         \o textContentOf([element EXCEPT !.text = <<>>, !.children = Tail(@)])

isTextOnlyElement(element) ==
    IF Len(element.children) > 0 THEN FALSE
    ELSE Len(trim(textContentOf(element))) > 0

\* /^\s*([-+]?)(\d+)/: the prefix of a string parseInt(s, 10) reads
intRe == Rep(WS, 0, -1) \o Cap(1, Rep({"-", "+"}, 0, 1)) \o Cap(2, Rep(DIGITS, 1, -1))

\* parseInt(s, 10): NaN unless an optionally signed run of digits leads s
parseInt10(s) ==
    The({IF m.ok THEN floatOf(Group(s, m, 1), Group(s, m, 2), <<>>) ELSE NaN :
            m \in {Match(intRe, s, 1)}})

parseOpacity(styles) ==
    The({IF opacity.k # "num" THEN Whole(1) ELSE opacity :
            opacity \in {parseFloat(styles.opacity)}})

isVisible(styles) ==
    /\ styles.display # "none"
    /\ styles.visibility # "hidden"
    /\ Lt(Whole(0), parseOpacity(styles))

hasBackground(bgColor) ==
    bgColor # <<>> /\ bgColor # Chars("transparent") /\ bgColor # Chars("rgba(0, 0, 0, 0)")

hasBlockChildren(element) ==
    \E i \in DOMAIN element.children :
        element.children[i].styles.display \in {"block", "flex", "grid", "table", "list-item"}

\* lines 1647-1653 with 0 in the place of 2
hasAnyPadding(styles) ==
    \E side \in {"paddingTop", "paddingRight", "paddingBottom", "paddingLeft"} :
        Lt(Whole(0), OrZero(parseFloat(styles[side])))

\* lines 1647-1653
hasSignificantPadding(styles) ==
    \E side \in {"paddingTop", "paddingRight", "paddingBottom", "paddingLeft"} :
        Lt(Whole(2), OrZero(parseFloat(styles[side])))

hasRealTextNodes(element) == Len(trim(element.text)) > 0

textLayerType(element, styles) ==
    IF hasBlockChildren(element) THEN "FRAME"
    ELSE IF hasSignificantPadding(styles) THEN "FRAME"
    ELSE IF isTextElement(element.tagName) \/ hasRealTextNodes(element) THEN "TEXT"
    ELSE "FRAME"

determineLayerType(element, styles) ==
    CASE element.tagName = "img" -> "RECTANGLE"
      [] element.tagName = "svg" -> "FRAME"
      [] element.tagName \in {"circle", "ellipse"} -> "ELLIPSE"
      [] element.tagName = "rect" -> "RECTANGLE"
      [] element.tagName \in {"path", "polygon", "polyline", "line"} -> "FRAME"
      [] element.tagName = "g" -> "GROUP"
      [] element.tagName \in {"table", "thead", "tbody", "tfoot", "tr"} -> "FRAME"
      [] element.tagName = "caption" -> "FRAME"
      [] /\ styles.borderRadius \in {Chars("50%"), Chars("9999px")}
         /\ Lt(NumAbs(Sub(element.rect.width, element.rect.height)), Whole(2)) -> "ELLIPSE"
      [] /\ ~hasBackground(styles.backgroundColor)
         /\ (isTextElement(element.tagName) \/ isTextOnlyElement(element)) ->
            textLayerType(element, styles)
      [] OTHER -> "FRAME"

\* text.slice(0, 20) + (text.length > 20 ? '...' : '')
preview(text) ==
    IF Len(text) > 20 THEN SubSeq(text, 1, 20) \o Chars("...") ELSE text

generateLayerName(element) ==
    IF element.id # <<>> THEN Chars(element.tagName) \o <<"#">> \o element.id
    ELSE IF Len(trim(textContentOf(element))) > 0
    THEN preview(trim(textContentOf(element)))
    ELSE Chars(element.tagName)

\* element.innerText: the text of the element with "\n" for a <br>
RECURSIVE innerTextOf(_)
innerTextOf(element) ==
    IF element.tagName = "br" THEN <<"\n">>
    ELSE IF element.children = <<>> THEN element.text
    ELSE element.text \o innerTextOf(Head(element.children))
         \o innerTextOf([element EXCEPT !.text = <<>>, !.children = Tail(@)])

\* (element as HTMLElement).innerText.trim()
getDirectTextContent(element) == trim(innerTextOf(element))

getDirectTextNodesOnly(element) == trim(element.text)

\* line 1154: the z-index the layer carries, none for 0 on a layer that is
\* neither fixed nor sticky
layerZIndex(position, zIndex) ==
    IF position \in {"fixed", "sticky"} THEN NumMax(zIndex, Whole(1000))
    ELSE IF zIndex.n # 0 THEN zIndex ELSE Undefined

\* lines 1129-1130
zIndexOfStyles(styles) ==
    The({IF zIndexValue.k # "num" THEN Whole(0) ELSE zIndexValue :
            zIndexValue \in {parseInt10(styles.zIndex)}})

\* lines 1137-1163: the base layer (an absent optional boolean is FALSE, an
\* absent string or list is empty, an absent object is Null)
baseLayer(element, styles, options, type) ==
    [type |-> type,
     name |-> generateLayerName(element),
     x |-> Sub(element.rect.left, options.rootOffset.x),
     y |-> IF styles.position \in {"fixed", "sticky"} THEN Whole(0)
           ELSE Sub(element.rect.top, options.rootOffset.y),
     width |-> element.rect.width,
     height |-> element.rect.height,
     fills |-> parseBackground(styles),
     strokes |-> parseBorder(styles),
     effects |-> parseBoxShadow(styles),
     opacity |-> parseOpacity(styles),
     visible |-> TRUE,
     isAbsolutelyPositioned |-> styles.position \in {"absolute", "fixed", "sticky"},
     zIndex |-> layerZIndex(styles.position, zIndexOfStyles(styles)),
     characters |-> <<>>,
     textSegments |-> <<>>,
     imageUrl |-> <<>>,
     autoLayout |-> Null,
     children |-> <<>>,
     sourceElement |-> [tagName |-> element.tagName, id |-> element.id]]

\* lines 1166-1190: native checkboxes and radio buttons
withFormControlDefaults(layer, element, styles) ==
    IF /\ element.tagName = "input"
       /\ element.inputType \in {"checkbox", "radio"}
       /\ styles.appearance # "none"
       /\ layer.fills = <<>> /\ layer.strokes = Null
    THEN [layer EXCEPT
            !.fills = <<[type |-> "SOLID",
                         color |-> RGBA(Whole(1), Whole(1), Whole(1), Whole(1)),
                         opacity |-> 1, visible |-> TRUE]>>,
            !.strokes = [color |-> RGBA(Num(796, 1000), Num(835, 1000),
                                        Num(882, 1000), Whole(1)),
                         weight |-> Num(3, 2), position |-> "INSIDE"],
            !.width = IF Lt(@, Whole(16)) THEN Whole(20) ELSE @,
            !.height = IF Lt(@, Whole(16)) THEN Whole(20) ELSE @]
    ELSE layer

\* lines 1194-1205: a flex child is widened to its max-width
expandedWidth(width, maxW) ==
    IF maxW.k = "num" /\ Lt(width, maxW) /\ Le(maxW, Mul(width, Whole(3)))
    THEN maxW ELSE width

withMaxWidth(layer, styles, parentDisplay) ==
    IF /\ parentDisplay \in {"flex", "inline-flex"}
       /\ styles.maxWidth # <<>> /\ styles.maxWidth # Chars("none")
    THEN [layer EXCEPT !.width = expandedWidth(@, parseFloat(styles.maxWidth))]
    ELSE layer

\* lines 1795 and 1822: textDecorationLine || textDecoration
textDecorationOf(styles) ==
    IF styles.textDecorationLine # <<>> THEN styles.textDecorationLine
    ELSE styles.textDecoration

\* element.childNodes: the text node, when there is text, and the child elements
childNodesOf(element) ==
    (IF element.text = <<>> THEN <<>>
     ELSE <<[nodeType |-> "TEXT_NODE", textContent |-> element.text]>>)
    \o [i \in DOMAIN element.children |->
           [nodeType |-> "ELEMENT_NODE", element |-> element.children[i],
            textContent |-> textContentOf(element.children[i])]]

\* lines 1801-1823: the styles a child node is compared by
nodeStyles(child, parentStyles) ==
    IF child.nodeType = "ELEMENT_NODE" THEN child.element.styles ELSE parentStyles

\* lines 1826-1831
isDifferent(childStyles, parentStyles) ==
    \/ childStyles.color # parentStyles.color
    \/ childStyles.fontWeight # parentStyles.fontWeight
    \/ childStyles.fontStyle # parentStyles.fontStyle
    \/ childStyles.fontSize # parentStyles.fontSize
    \/ textDecorationOf(childStyles) # textDecorationOf(parentStyles)

\* lines 1834-1860: the segment of a child whose styles differ (an override
\* that is not set is Null, Undefined or the empty string)
segmentOf(text, offset, childStyles, parentStyles) ==
    [text |-> text,
     start |-> offset,
     end |-> offset + Len(text),
     color |-> IF childStyles.color # parentStyles.color
               THEN parseColor(childStyles.color, NoFallback) ELSE Null,
     fontWeight |-> IF childStyles.fontWeight # parentStyles.fontWeight
                    THEN parseInt10(childStyles.fontWeight) ELSE Undefined,
     fontStyle |-> IF childStyles.fontStyle # parentStyles.fontStyle
                   THEN (IF childStyles.fontStyle = "italic" THEN "italic" ELSE "normal")
                   ELSE "",
     fontSize |-> IF childStyles.fontSize # parentStyles.fontSize
                  THEN parseFloat(childStyles.fontSize) ELSE Undefined,
     textDecoration |->
        IF textDecorationOf(childStyles) # textDecorationOf(parentStyles)
        THEN (IF includes(textDecorationOf(childStyles), Chars("underline"))
              THEN "UNDERLINE"
              ELSE IF includes(textDecorationOf(childStyles), Chars("line-through"))
              THEN "STRIKETHROUGH"
              ELSE "NONE")
        ELSE ""]

\* lines 1799-1866: the loop over the child nodes
RECURSIVE segmentsOf(_, _, _, _)
segmentsOf(childNodes, parentStyles, offset, segments) ==
    IF childNodes = <<>> THEN segments
    ELSE The({
        IF child.nodeType = "ELEMENT_NODE" /\ child.element.tagName = "br"
        THEN segmentsOf(Tail(childNodes), parentStyles, offset + 1, segments)
        ELSE IF Len(child.textContent) > 0
        THEN segmentsOf(Tail(childNodes), parentStyles, offset + Len(child.textContent),
                 IF isDifferent(nodeStyles(child, parentStyles), parentStyles)
                 THEN Append(segments,
                             segmentOf(child.textContent, offset,
                                       nodeStyles(child, parentStyles), parentStyles))
                 ELSE segments)
        ELSE segmentsOf(Tail(childNodes), parentStyles, offset, segments) :
            child \in {Head(childNodes)}})

\* lines 1785-1869: the absent list, when there are no child elements or no
\* segments, is the empty sequence
captureTextSegments(element) ==
    IF Len(element.children) = 0 THEN <<>>
    ELSE The({IF Len(segments) > 0 THEN segments ELSE <<>> :
                 segments \in {segmentsOf(childNodesOf(element), element.styles, 0, <<>>)}})

\* lines 1208-1217
withTextContent(layer, element, styles, textContent) ==
    IF layer.type = "TEXT" /\ textContent # <<>>
    THEN [layer EXCEPT !.characters = textContent,
                       !.textSegments = captureTextSegments(element),
                       !.effects = @ \o parseTextShadow(styles)]
    ELSE layer

\* lines 1236-1254
scaleModeOf(objectFit) ==
    CASE objectFit = "cover" -> "FILL"
      [] objectFit \in {"contain", "scale-down"} -> "FIT"
      [] objectFit = "fill" -> "CROP"
      [] objectFit = "none" -> "CROP"
      [] OTHER -> "FILL"

\* lines 1231-1265
withImage(layer, element, styles, options) ==
    IF element.tagName = "img" /\ options.captureImages /\ element.src # <<>>
    THEN [layer EXCEPT
            !.imageUrl = element.src,
            !.fills = <<[type |-> "IMAGE", imageUrl |-> element.src,
                         scaleMode |-> scaleModeOf(styles.objectFit),
                         opacity |-> 1, visible |-> TRUE]>>]
    ELSE layer

\* lines 1268-1271
withAutoLayout(layer, styles) == [layer EXCEPT !.autoLayout = parseAutoLayout(styles)]

\* lines 1137-1217: the layer before the SVG, image and layout steps
startLayer(element, styles, options, parentDisplay, type) ==
    withTextContent(
        withMaxWidth(
            withFormControlDefaults(baseLayer(element, styles, options, type),
                                    element, styles),
            styles, parentDisplay),
        element, styles, getDirectTextContent(element))

\* lines 1284-1295: the height of the fixed or sticky children at the top
RECURSIVE fixedTopHeightOf(_, _)
fixedTopHeightOf(elements, fixedTopHeight) ==
    IF elements = <<>> THEN fixedTopHeight
    ELSE fixedTopHeightOf(Tail(elements),
             IF /\ Head(elements).styles.position \in {"fixed", "sticky"}
                /\ Lt(Head(elements).rect.top, Whole(100))
             THEN NumMax(fixedTopHeight, Head(elements).rect.height)
             ELSE fixedTopHeight)

\* lines 1299-1309: content below a fixed header moves up by its height
adjustedForFixedTop(childLayer, fixedTopHeight) ==
    IF childLayer = Null THEN Null
    ELSE IF ~childLayer.isAbsolutelyPositioned /\ Lt(Whole(0), fixedTopHeight)
    THEN (IF Lt(NumAbs(Sub(childLayer.y, fixedTopHeight)), Whole(20))
          THEN [childLayer EXCEPT !.y = Whole(0)]
          ELSE IF Lt(fixedTopHeight, childLayer.y)
          THEN [childLayer EXCEPT !.y = Sub(@, fixedTopHeight)]
          ELSE childLayer)
    ELSE childLayer

\* lines 1329-1330
isTextOnlyFrame(children) ==
    \/ Len(children) = 0
    \/ \A i \in DOMAIN children :
          children[i].sourceElement.tagName \in {"::before", "::after"}

\* lines 1332-1346: the auto-layout of a frame that holds nothing but text
textOnlyLayout(styles, existingAL) ==
    [mode |-> "HORIZONTAL",
     primaryAxisAlignItems |-> IF styles.textAlign = "center" THEN "CENTER"
                               ELSE IF styles.textAlign = "right" THEN "MAX" ELSE "MIN",
     counterAxisAlignItems |-> "CENTER",
     paddingTop |-> IF existingAL # Null THEN existingAL.paddingTop
                    ELSE OrZero(parseFloat(styles.paddingTop)),
     paddingRight |-> IF existingAL # Null THEN existingAL.paddingRight
                      ELSE OrZero(parseFloat(styles.paddingRight)),
     paddingBottom |-> IF existingAL # Null THEN existingAL.paddingBottom
                       ELSE OrZero(parseFloat(styles.paddingBottom)),
     paddingLeft |-> IF existingAL # Null THEN existingAL.paddingLeft
                     ELSE OrZero(parseFloat(styles.paddingLeft)),
     itemSpacing |-> Whole(0),
     primaryAxisSizingMode |-> "FIXED",
     counterAxisSizingMode |-> "FIXED",
     wrap |-> FALSE,
     counterAxisStretch |-> FALSE]

\* x || y for numbers
NumOr(x, y) == IF x.k # "num" \/ x.n = 0 THEN y ELSE x

\* lines 1321-1326 and 1349-1368: the box of the text, in the content area
textBox(element, styles, isTextOnly) ==
    IF isTextOnly
    THEN [x |-> Whole(0), y |-> Whole(0),
          width |-> Sub(Sub(element.rect.width, OrZero(parseFloat(styles.paddingLeft))),
                        OrZero(parseFloat(styles.paddingRight))),
          height |-> Sub(Sub(element.rect.height, OrZero(parseFloat(styles.paddingTop))),
                         OrZero(parseFloat(styles.paddingBottom)))]
    ELSE [x |-> Sub(Sub(element.textRect.left, element.rect.left),
                    OrZero(parseFloat(styles.paddingLeft))),
          y |-> Sub(Sub(element.textRect.top, element.rect.top),
                    OrZero(parseFloat(styles.paddingTop))),
          width |-> NumOr(element.textRect.width,
                          Sub(Sub(element.rect.width, OrZero(parseFloat(styles.paddingLeft))),
                              OrZero(parseFloat(styles.paddingRight)))),
          height |-> NumOr(element.textRect.height,
                           Sub(Sub(element.rect.height, OrZero(parseFloat(styles.paddingTop))),
                               OrZero(parseFloat(styles.paddingBottom))))]

\* lines 1370-1388: the TEXT child that holds the direct text of a frame
textChildOf(directText, box, styles) ==
    [type |-> "TEXT",
     name |-> preview(directText),
     x |-> box.x,
     y |-> box.y,
     width |-> NumMax(Whole(1), box.width),
     height |-> NumMax(Whole(1), box.height),
     fills |-> <<>>,
     strokes |-> Null,
     effects |-> parseTextShadow(styles),
     opacity |-> Whole(1),
     visible |-> TRUE,
     isAbsolutelyPositioned |-> FALSE,
     zIndex |-> Undefined,
     characters |-> directText,
     imageUrl |-> <<>>,
     autoLayout |-> Null,
     children |-> <<>>]

\* lines 1316-1390: the auto-layout and the children once the direct text of
\* the element has its TEXT child
withTextChild(autoLayout, element, styles, children, directText) ==
    IF directText = <<>> THEN [autoLayout |-> autoLayout, children |-> children]
    ELSE [autoLayout |-> IF isTextOnlyFrame(children)
                         THEN textOnlyLayout(styles, autoLayout) ELSE autoLayout,
          children |-> Append(children,
                              textChildOf(directText,
                                          textBox(element, styles, isTextOnlyFrame(children)),
                                          styles))]

\* a.zIndex || 0
zIndexOrZero(node) ==
    IF "zIndex" \in DOMAIN node /\ node.zIndex.k = "num" THEN node.zIndex.n ELSE 0

\* the place of a child among the children sorted so far: after those whose
\* z-index is not greater (Array.prototype.sort is stable)
insertByZIndex(sorted, child) ==
    The({SubSeq(sorted, 1, k) \o <<child>> \o SubSeq(sorted, k + 1, Len(sorted)) :
            k \in {Cardinality({i \in DOMAIN sorted :
                                   zIndexOrZero(sorted[i]) <= zIndexOrZero(child)})}})

\* line 1394: children.sort((a, b) => (a.zIndex || 0) - (b.zIndex || 0))
RECURSIVE sortByZIndex(_, _)
sortByZIndex(children, sorted) ==
    IF children = <<>> THEN sorted
    ELSE sortByZIndex(Tail(children), insertByZIndex(sorted, Head(children)))

Quotes == {"\"", "'"}

\* content.replace(/^["']|["']$/g, '')
unquoted(content) ==
    The({IF t # <<>> /\ t[Len(t)] \in Quotes THEN SubSeq(t, 1, Len(t) - 1) ELSE t :
            t \in {IF content # <<>> /\ content[1] \in Quotes THEN Tail(content)
                   ELSE content}})

startsWith(s, lit) == Len(s) >= Len(lit) /\ SubSeq(s, 1, Len(lit)) = lit

\* lines 2028-2077: the layer of a pseudo-element whose content is not drawn
\* in an icon font
pseudoLayer(styles, pseudo, textContent, isTextContent, width, height, fills) ==
    IF width.n = 0 /\ height.n = 0 /\ ~isTextContent /\ fills = <<>> THEN Null
    ELSE [type |-> IF isTextContent THEN "TEXT" ELSE "FRAME",
          name |-> Tail(Tail(Chars(pseudo))),
          x |-> OrZero(parseFloat(styles.left)),
          y |-> OrZero(parseFloat(styles.top)),
          width |-> NumOr(width, IF isTextContent THEN Whole(100) ELSE Whole(20)),
          height |-> NumOr(height, Whole(20)),
          fills |-> fills,
          strokes |-> parseBorder(styles),
          effects |-> parseBoxShadow(styles),
          opacity |-> parseOpacity(styles),
          visible |-> TRUE,
          isAbsolutelyPositioned |-> styles.position \in {"absolute", "fixed"},
          zIndex |-> Undefined,
          characters |-> IF isTextContent THEN textContent ELSE <<>>,
          imageUrl |-> <<>>,
          autoLayout |-> Null,
          children |-> <<>>,
          sourceElement |-> [tagName |-> pseudo, id |-> <<>>]]

\* lines 1899-2077 (the content holds no escape sequence)
capturePseudoElement(styles, pseudo) ==
    IF styles.content \in {<<>>, Chars("none"), Chars("normal"), Chars("\"\""), Chars("''")}
    THEN Null
    ELSE IF styles.display = "none" \/ styles.visibility = "hidden" THEN Null
    ELSE pseudoLayer(styles, pseudo, unquoted(styles.content),
                     Len(unquoted(styles.content)) > 0
                         /\ ~startsWith(styles.content, Chars("url(")),
                     OrZero(parseFloat(styles.width)), OrZero(parseFloat(styles.height)),
                     parseBackground(styles))

\* lines 1397-1405: ::before goes first and ::after last
withPseudoElements(children, beforeElement, afterElement) ==
    (IF beforeElement # Null THEN <<beforeElement>> ELSE <<>>)
    \o children
    \o (IF afterElement # Null THEN <<afterElement>> ELSE <<>>)

\* line 1515: the child does not fill the content width
isNarrower(child, contentWidth) ==
    Lt(Whole(0), contentWidth) /\ Lt(child.width, Sub(contentWidth, Whole(2)))

\* line 1518
expectedCenterX(pLeft, contentWidth, child) ==
    Add(pLeft, Div(Sub(contentWidth, child.width), Whole(2)))

\* line 1519 with <= in the place of <
isCenteredOrAtTolerance(child, pLeft, contentWidth) ==
    Le(NumAbs(Sub(child.x, expectedCenterX(pLeft, contentWidth, child))), Whole(8))

\* line 1519
isCentered(child, pLeft, contentWidth) ==
    Lt(NumAbs(Sub(child.x, expectedCenterX(pLeft, contentWidth, child))), Whole(8))

\* lines 1510-1525
centeredCountOf(flowChildren, pLeft, contentWidth) ==
    Cardinality({i \in DOMAIN flowChildren :
                    /\ isNarrower(flowChildren[i], contentWidth)
                    /\ isCentered(flowChildren[i], pLeft, contentWidth)})

fullWidthCountOf(flowChildren, contentWidth) ==
    Cardinality({i \in DOMAIN flowChildren : ~isNarrower(flowChildren[i], contentWidth)})

\* lines 1527-1530
alignedLayout(autoLayout, nonFullWidthChildren, centeredCount) ==
    IF nonFullWidthChildren > 0 /\ 2 * centeredCount > nonFullWidthChildren
    THEN [autoLayout EXCEPT !.counterAxisAlignItems = "CENTER"]
    ELSE autoLayout

\* lines 1503-1532: cross-axis alignment of a VERTICAL auto-layout
detectCounterAxis(autoLayout, width, children) ==
    IF autoLayout # Null /\ autoLayout.mode = "VERTICAL" /\ FlowChildren(children) # <<>>
    THEN The({alignedLayout(autoLayout,
                            Len(FlowChildren(children))
                                - fullWidthCountOf(FlowChildren(children), contentWidth),
                            centeredCountOf(FlowChildren(children),
                                            OrZero(autoLayout.paddingLeft), contentWidth)) :
                 contentWidth \in {Sub(Sub(width, OrZero(autoLayout.paddingLeft)),
                                       OrZero(autoLayout.paddingRight))}})
    ELSE autoLayout

\* line 1093 with >= in the place of >
reachesMaxDepth(depth, options) == depth >= options.maxDepth

\* line 1093
exceedsMaxDepth(depth, options) == depth > options.maxDepth

RECURSIVE convertElement(_, _, _, _)

\* lines 1297-1312: the layers of the child elements that are converted
convertedChildren(element, childOptions, depth, fixedTopHeight) ==
    NonNull([i \in DOMAIN element.children |->
                adjustedForFixedTop(convertElement(element.children[i], childOptions,
                                                   depth + 1, element.styles.display),
                                    fixedTopHeight)] \o <<>>)

\* lines 1316-1318
directTextOf(element, children) ==
    IF Len(children) = 0 THEN getDirectTextContent(element)
    ELSE getDirectTextNodesOnly(element)

\* lines 1501-1534: the layer with the children and the auto-layout they leave
laidOut(layer, spaced) ==
    [layer EXCEPT !.autoLayout = detectCounterAxis(spaced.autoLayout, layer.width,
                                                   spaced.children),
                  !.children = spaced.children]

\* lines 1392-1534: sorting, pseudo-elements, item spacing, cross-axis alignment
arranged(layer, element, withText) ==
    The({laidOut(layer, spaced) :
            spaced \in {inferItemSpacing(
                            withText.autoLayout, element.styles.display,
                            withPseudoElements(
                                sortByZIndex(withText.children, <<>>),
                                capturePseudoElement(element.before, "::before"),
                                capturePseudoElement(element.after, "::after")))}})

\* lines 1274-1535: the children of a layer that is not TEXT
withChildren(layer, element, options, depth) ==
    The({arranged(layer, element,
                  withTextChild(layer.autoLayout, element, element.styles, children,
                                directTextOf(element, children))) :
            children \in {convertedChildren(
                              element,
                              [options EXCEPT !.rootOffset = [x |-> element.rect.left,
                                                              y |-> element.rect.top]],
                              depth,
                              fixedTopHeightOf(element.children, Whole(0)))}})

\* lines 1219-1537: the SVG markup of an svg element is always serialised
completed(layer, element, options, depth) ==
    IF element.tagName = "svg" THEN layer
    ELSE IF layer.type = "TEXT"
    THEN withAutoLayout(withImage(layer, element, element.styles, options), element.styles)
    ELSE withChildren(withAutoLayout(withImage(layer, element, element.styles, options),
                                     element.styles),
                      element, options, depth)

convertElement(element, options, depth, parentDisplay) ==
    IF exceedsMaxDepth(depth, options) THEN Null
    ELSE IF isNonVisualElement(element.tagName) THEN Null
    ELSE IF ~options.includeHidden /\ ~isVisible(element.styles) THEN Null
    ELSE IF element.rect.width.n = 0 /\ element.rect.height.n = 0 THEN Null
    ELSE The({completed(layer, element, options, depth) :
                 layer \in {startLayer(element, element.styles, options, parentDisplay,
                                       determineLayerType(element, element.styles))}})

DEFAULT_OPTIONS ==
    [includeHidden |-> FALSE,
     maxDepth |-> 50,
     rootOffset |-> [x |-> Whole(0), y |-> Whole(0)],
     captureImages |-> TRUE]

\* { ...defaults, ...options }
mergedOptions(defaults, options) ==
    [f \in DOMAIN defaults |-> IF f \in DOMAIN options THEN options[f] ELSE defaults[f]]

\* the element handed to domToLayer is the child of a block container
RootParentDisplay == "block"

domToLayer(element, options) ==
    convertElement(element, mergedOptions(DEFAULT_OPTIONS, options), 0, RootParentDisplay)

(***************************************************************************)
(* Elements to convert.                                                    *)
(***************************************************************************)
Box(left, top, width, height) ==
    [left |-> Whole(left), top |-> Whole(top), width |-> Whole(width), height |-> Whole(height)]

Element(tagName) ==
    [tagName |-> tagName, id |-> <<>>, inputType |-> "", src |-> <<>>,
     styles |-> DefaultStyles,
     rect |-> Box(0, 0, 100, 20), text |-> <<>>, textRect |-> Box(0, 0, 30, 16),
     children |-> <<>>, before |-> DefaultStyles, after |-> DefaultStyles]

\* the largest number of child elements of a container
MaxElementChildren == 3

\* the largest number of containers nested around an element
MaxNesting == 3

PaddingTexts == {Chars("0px"), Chars("2px"), Chars("6px")}

\* width and height of the measured boxes
BoxSizes == {<<100, 20>>, <<0, 10>>, <<40, 0>>, <<0, 0>>}

\* the computed style of a pseudo-element that draws an asterisk
AsteriskStyles ==
    [DefaultStyles EXCEPT !.content = Chars("\"*\""), !.display = "inline"]

\* elements without child elements
LeafElements ==
    {[Element(tagName) EXCEPT
         !.text = text, !.src = IF tagName = "img" THEN Chars("a.png") ELSE <<>>,
         !.styles.display = IF hidden THEN "none"
                            ELSE IF tagName = "img" THEN "inline-block" ELSE "block",
         !.styles.position = position, !.styles.paddingLeft = padding,
         !.rect = Box(0, 0, size[1], size[2])] :
        tagName \in {"div", "p", "img", "script"}, text \in {<<>>, Chars("Hi")},
        hidden \in BOOLEAN, position \in {"static", "absolute", "fixed"},
        padding \in PaddingTexts, size \in BoxSizes}

\* the kinds of child element: a paragraph of text, a div raised or lowered
\* by its z-index, a fixed div at the top, a div narrower than its container
\* (and, in the containers made for them, a div with a z-index of 2000 and a
\* sticky header 50 high)
ChildKinds == {"text", "raised", "lowered", "fixed", "narrow"}

DigitNames == <<"0", "1", "2", "3", "4", "5", "6">>

ChildOfKind(kind, i, top) ==
    [Element(IF kind = "text" THEN "p" ELSE "div") EXCEPT
        !.id = <<"k", DigitNames[i + 1]>>,
        !.text = IF kind = "text" THEN Chars("Hi") ELSE <<>>,
        !.rect = IF kind = "narrow" THEN Box(30, top, 40, 10)
                 ELSE IF kind = "fixed" THEN Box(0, 0, 100, 10)
                 ELSE IF kind = "header" THEN Box(0, 0, 100, 50)
                 ELSE Box(0, top, 100, 10),
        !.styles.position = CASE kind \in {"raised", "lowered", "topmost"} -> "relative"
                              [] kind = "fixed" -> "fixed"
                              [] kind = "header" -> "sticky"
                              [] OTHER -> "static",
        !.styles.zIndex = CASE kind = "raised" -> Chars("5")
                            [] kind = "lowered" -> Chars("-1")
                            [] kind = "topmost" -> Chars("2000")
                            [] OTHER -> Chars("auto")]

KindLists == UNION {[1..n -> ChildKinds] : n \in 1..MaxElementChildren}

\* a fixed header among divs that a z-index of 2000 puts on top of the page
OverlayKindLists == UNION {[1..n -> {"fixed", "topmost"}] : n \in 1..MaxElementChildren}

EvenTops == <<0, 10, 20, 30, 40>>

\* a wider gap after the second child
UnevenTops == <<0, 16, 56, 72, 88>>

\* what surrounds the child elements of a container, and the options of the call
ContainerSettings ==
    {[display |-> "block", tops |-> EvenTops, text |-> <<>>,
      before |-> DefaultStyles, after |-> DefaultStyles, options |-> <<>>],
     [display |-> "block", tops |-> UnevenTops, text |-> Chars("T"),
      before |-> DefaultStyles, after |-> AsteriskStyles, options |-> <<>>],
     [display |-> "flex", tops |-> EvenTops, text |-> Chars("T"),
      before |-> DefaultStyles, after |-> DefaultStyles,
      options |-> [includeHidden |-> TRUE]],
     [display |-> "block", tops |-> UnevenTops, text |-> <<>>,
      before |-> AsteriskStyles, after |-> DefaultStyles, options |-> [maxDepth |-> 1]]}

\* where the two children under a sticky header 50 high begin
HeaderTops == {0, 20, 35, 60, 80}

HeaderSettings ==
    {[display |-> "block", tops |-> <<0, first, second>>, text |-> <<>>,
      before |-> DefaultStyles, after |-> DefaultStyles, options |-> <<>>] :
        first \in HeaderTops, second \in HeaderTops}

\* a container 100 wide with its child elements stacked top to bottom
ContainerElement(kinds, setting) ==
    [Element("div") EXCEPT
        !.id = <<"r">>, !.text = setting.text, !.rect = Box(0, 0, 100, 100),
        !.styles.display = setting.display,
        !.before = setting.before, !.after = setting.after,
        !.children = [i \in DOMAIN kinds |->
                         ChildOfKind(kinds[i], i, setting.tops[i])] \o <<>>]

\* an element inside n block containers, the boxes measured 100 by 20
RECURSIVE Nested(_, _, _)
Nested(element, n, depth) ==
    IF n = 0 THEN [element EXCEPT !.id = <<"n", DigitNames[depth + 1]>>]
    ELSE [Element("div") EXCEPT
             !.id = <<"n", DigitNames[depth + 1]>>,
             !.children = <<Nested(element, n - 1, depth + 1)>>]

NestedElements ==
    {Nested([Element(tagName) EXCEPT !.text = text], n, 0) :
        tagName \in {"div", "p"}, text \in {<<>>, Chars("Hi")}, n \in 1..MaxNesting}

ConversionOptions ==
    {<<>>, [maxDepth |-> 0], [maxDepth |-> 1], [maxDepth |-> 2], [maxDepth |-> 3],
     [includeHidden |-> TRUE, maxDepth |-> 1]}

(* One call of domToLayer on an element tree.                               *)
InitBuild ==
    /\ pc = "call"
    /\ fn = "domToLayer"
    /\ ret = Null
    /\ arg \in {[element |-> element, options |-> options] :
                    element \in LeafElements,
                    options \in {<<>>, [includeHidden |-> TRUE, captureImages |-> FALSE]}}
               \cup {[element |-> ContainerElement(kinds, setting),
                      options |-> setting.options] :
                        kinds \in KindLists, setting \in ContainerSettings}
               \cup {[element |-> ContainerElement(<<"header", "narrow", "text">>, setting),
                      options |-> <<>>] : setting \in HeaderSettings}
               \cup {[element |-> ContainerElement(kinds, setting), options |-> <<>>] :
                        kinds \in OverlayKindLists,
                        setting \in {s \in ContainerSettings :
                                        s.display = "block" /\ s.tops = EvenTops}}
               \cup {[element |-> element, options |-> options] :
                        element \in NestedElements, options \in ConversionOptions}

DomToLayer ==
    /\ pc = "call" /\ fn = "domToLayer"
    /\ ret' = domToLayer(arg.element, arg.options)
    /\ pc' = "done"
    /\ UNCHANGED <<fn, arg>>

NextBuild == DomToLayer

SpecBuild == InitBuild /\ [][NextBuild]_vars

BuildDone == pc = "done" /\ fn = "domToLayer"

\* a display:block div with no background and no child elements, holding a
\* real text node, measured with a positive area
TextDivBuilt ==
    /\ BuildDone
    /\ arg.element.tagName = "div"
    /\ arg.element.styles.display = "block"
    /\ ~hasBackground(arg.element.styles.backgroundColor)
    /\ arg.element.children = <<>>
    /\ Len(trim(arg.element.text)) > 0
    /\ arg.element.rect.width.n > 0 /\ arg.element.rect.height.n > 0

ContainerWidth == Whole(100)

CenterOffsets == {Whole(0), Num(15, 2), Whole(8), Whole(-8), Whole(20)}

AlignKinds ==
    {[width |-> Whole(w), offset |-> Whole(0), absolute |-> FALSE] : w \in {100, 98}}
    \cup {[width |-> Whole(w), offset |-> o, absolute |-> FALSE] :
             w \in {97, 40}, o \in CenterOffsets}
    \cup {[width |-> Whole(40), offset |-> Whole(0), absolute |-> TRUE]}

AlignKindLists == UNION {[1..n -> AlignKinds] : n \in 1..MaxChildren}

\* the layer of a child of the given kind, the children stacked 10 apart
AlignChild(kind, i, pLeft, contentWidth) ==
    [type |-> "FRAME",
     name |-> <<"c", DigitNames[i + 1]>>,
     x |-> Add(Add(pLeft, Div(Sub(contentWidth, kind.width), Whole(2))), kind.offset),
     y |-> Whole(10 * (i - 1)),
     width |-> kind.width,
     height |-> Whole(10),
     isAbsolutelyPositioned |-> kind.absolute]

AlignLayouts ==
    {[flowLayout(DefaultStyles, l[1], l[2]) EXCEPT !.paddingLeft = l[3]] :
        l \in {<<"VERTICAL", "MIN", Whole(0)>>, <<"VERTICAL", "MIN", Whole(10)>>,
               <<"VERTICAL", "MAX", Whole(0)>>, <<"HORIZONTAL", "MIN", Whole(0)>>,
               <<"VERTICAL", "CENTER", Whole(0)>>}}

InitAlign ==
    /\ pc = "call"
    /\ fn = "convertElement"
    /\ ret = Null
    /\ \E kinds \in AlignKindLists, autoLayout \in AlignLayouts :
          arg = [autoLayout |-> autoLayout,
                 width |-> ContainerWidth,
                 kinds |-> kinds,
                 children |-> [i \in DOMAIN kinds |->
                                  AlignChild(kinds[i], i, autoLayout.paddingLeft,
                                             Sub(ContainerWidth, autoLayout.paddingLeft))]
                              \o <<>>]

DetectCounterAxis ==
    /\ pc = "call"
    /\ fn = "convertElement"
    /\ ret' = detectCounterAxis(arg.autoLayout, arg.width, arg.children)
    /\ pc' = "done"
    /\ UNCHANGED <<fn, arg>>

NextAlign == DetectCounterAxis

SpecAlign == InitAlign /\ [][NextAlign]_vars

\* the flow children narrower than the content width by more than 2
NarrowKinds ==
    {i \in DOMAIN arg.kinds :
        /\ ~arg.kinds[i].absolute
        /\ Lt(Whole(2), Sub(Sub(arg.width, arg.autoLayout.paddingLeft), arg.kinds[i].width))}

VerticalAligned == pc = "done" /\ fn = "convertElement" /\ arg.autoLayout.mode = "VERTICAL"

\* C13 as stated: a narrow flow child counts as centered when its x is within
\* 8 units of the centred x (8 included); counterAxisAlignItems becomes CENTER
\* exactly when the centered children are a strict majority of the narrow
\* flow children, and keeps its value otherwise.
C13_CenterWhenMajorityWithin8 ==
    VerticalAligned =>
        ret = [arg.autoLayout EXCEPT !.counterAxisAlignItems =
                  IF 2 * Cardinality({i \in NarrowKinds :
                                         Le(NumAbs(arg.kinds[i].offset), Whole(8))})
                        > Cardinality(NarrowKinds)
                  THEN "CENTER" ELSE @]

\* C13 amended: a narrow flow child counts as centered when its x is less
\* than 8 units from the centred x; counterAxisAlignItems becomes CENTER
\* exactly when the centered children are a strict majority of the narrow
\* flow children, and keeps its value otherwise.
C13_CenterWhenMajorityCloserThan8 ==
    VerticalAligned =>
        ret = [arg.autoLayout EXCEPT !.counterAxisAlignItems =
                  IF 2 * Cardinality({i \in NarrowKinds :
                                         Lt(NumAbs(arg.kinds[i].offset), Whole(8))})
                        > Cardinality(NarrowKinds)
                  THEN "CENTER" ELSE @]

\* three centered children give CENTER
C13_Witness ==
    /\ VerticalAligned
    /\ Len(arg.kinds) = 3
    /\ \A i \in DOMAIN arg.kinds : i \in NarrowKinds /\ arg.kinds[i].offset = Whole(0)
    /\ arg.autoLayout.counterAxisAlignItems = "MIN"
    /\ ret.counterAxisAlignItems = "CENTER"

(***************************************************************************)
(* Calls of domToLayer one after the other.  What outlives a call is the   *)
(* state of the modules: DEFAULT_OPTIONS of layer-meta.ts and namedColors  *)
(* of color-utils.ts, the only module-level bindings that hold objects.    *)
(* A call is given the module state and leaves the module state behind.    *)
(***************************************************************************)
ModuleState == [DEFAULT_OPTIONS |-> DEFAULT_OPTIONS, namedColors |-> namedColors]

\* lines 1084-1085 with Object.assign(DEFAULT_OPTIONS, options) in the place
\* of the copy { ...DEFAULT_OPTIONS, ...options }
domToLayerAssigning(module, element, options) ==
    [module |-> [module EXCEPT !.DEFAULT_OPTIONS = mergedOptions(@, options)],
     result |-> convertElement(element, mergedOptions(module.DEFAULT_OPTIONS, options),
                               0, RootParentDisplay)]

\* lines 1080-1086: the result of a call and the module state it leaves
domToLayerIn(module, element, options) ==
    [module |-> module,
     result |-> convertElement(element, mergedOptions(module.DEFAULT_OPTIONS, options),
                               0, RootParentDisplay)]

\* element trees converted more than once
RunElements ==
    {[Element("div") EXCEPT !.text = Chars("Hi"), !.styles.paddingLeft = Chars("6px"),
                            !.styles.backgroundColor = Chars("red")],
     [Element("img") EXCEPT !.src = Chars("a.png"), !.styles.display = "inline-block"],
     [Element("p") EXCEPT !.text = Chars("Hi"), !.styles.visibility = "hidden"],
     Nested([Element("p") EXCEPT !.text = Chars("Hi")], 2, 0),
     ContainerElement(<<"raised", "text", "lowered">>,
                      [display |-> "block", tops |-> UnevenTops, text |-> Chars("T"),
                       before |-> DefaultStyles, after |-> AsteriskStyles]),
     ContainerElement(<<"fixed", "narrow">>,
                      [display |-> "flex", tops |-> EvenTops, text |-> <<>>,
                       before |-> DefaultStyles, after |-> DefaultStyles])}

RunOptions ==
    {<<>>, [maxDepth |-> 0], [maxDepth |-> 1], [includeHidden |-> TRUE],
     [captureImages |-> FALSE], [rootOffset |-> [x |-> Whole(5), y |-> Whole(7)]]}

\* the call made between the two runs
OtherCalls ==
    {[element |-> element, options |-> options] :
        element \in {Nested([Element("p") EXCEPT !.text = Chars("Hi")], 2, 0),
                     [Element("div") EXCEPT !.styles.backgroundColor = Chars("red")]},
        options \in RunOptions}

InitRuns ==
    /\ pc = "call"
    /\ fn = "domToLayer"
    /\ ret = [module |-> ModuleState, results |-> <<>>]
    /\ arg \in {[element |-> element, options |-> options, other |-> other] :
                   element \in RunElements, options \in RunOptions, other \in OtherCalls}

\* the call a step makes: the element tree under test with its options, or,
\* between the two runs, another tree with other options
CallOf(between) ==
    IF between THEN arg.other ELSE [element |-> arg.element, options |-> arg.options]

\* one call of domToLayer: the first run, the call made between the runs
\* (its result dropped) or the second run
RunDomToLayer ==
    /\ fn = "domToLayer"
    /\ pc \in {"call", "first run done", "other call done"}
    /\ \E between \in (IF pc = "first run done" THEN BOOLEAN ELSE {FALSE}) :
          /\ ret' = The({[module |-> call.module,
                          results |-> IF between THEN ret.results
                                      ELSE Append(ret.results, call.result)] :
                            call \in {domToLayerIn(ret.module, CallOf(between).element,
                                                   CallOf(between).options)}})
          /\ pc' = CASE between -> "other call done"
                     [] pc = "call" -> "first run done"
                     [] pc = "first run done" -> "done at once"
                     [] OTHER -> "done"
    /\ UNCHANGED <<fn, arg>>

NextRuns == RunDomToLayer

SpecRuns == InitRuns /\ [][NextRuns]_vars

RECURSIVE NodesOf(_)
NodesOf(node) ==
    IF node = Null THEN {}
    ELSE {node} \cup UNION {NodesOf(node.children[i]) : i \in DOMAIN node.children}

InPaintOrder(children) ==
    \A i \in 1..(Len(children) - 1) :
        zIndexOrZero(children[i]) <= zIndexOrZero(children[i + 1])

\* C15: in every node the builder returns, the final children list (with the
\* synthesized text child, the pseudo nodes and the spacing wrappers) is in
\* non-decreasing order of z-index, an absent z-index counted as 0.
C15_ChildrenInPaintOrder ==
    BuildDone => \A node \in NodesOf(ret) : InPaintOrder(node.children)

IsPseudoNode(node) ==
    "sourceElement" \in DOMAIN node /\ node.sourceElement.tagName \in {"::before", "::after"}

\* the child a spacing wrapper stands for, the child itself otherwise
Unwrapped(node) == IF "sourceElement" \in DOMAIN node \/ node.type = "TEXT" THEN node
                   ELSE node.children[1]

\* What the code does: the children that come from child elements and from
\* the direct text are in order, a spacing wrapper taken as the child it holds.
ElementChildrenInPaintOrder ==
    BuildDone =>
        \A node \in NodesOf(ret) :
            InPaintOrder(SelectSeq([i \in DOMAIN node.children |->
                                       Unwrapped(node.children[i])] \o <<>>,
                                   LAMBDA c : ~IsPseudoNode(c)))

hasAutoLayout(node) == "autoLayout" \in DOMAIN node /\ node.autoLayout # Null

\* C16: in every tree the builder returns, a node carries an autoLayout
\* configuration only if its type is FRAME.
C16_AutoLayoutOnlyOnFrames ==
    BuildDone => \A node \in NodesOf(ret) : hasAutoLayout(node) => node.type = "FRAME"

\* What the code does for the nodes it does not build from an element: the
\* synthesized text children, the pseudo nodes and the spacing wrappers carry
\* an autoLayout only as FRAME.
SynthesizedAutoLayoutOnlyOnFrames ==
    BuildDone =>
        \A node \in NodesOf(ret) :
            (hasAutoLayout(node) /\ ("sourceElement" \notin DOMAIN node \/ IsPseudoNode(node)))
                => node.type = "FRAME"

\* C17: the builder returns null for every element whose measured box has
\* zero area, so no node built from an element has width 0 or height 0.
C17_ZeroAreaGivesNull ==
    BuildDone =>
        /\ ((arg.element.rect.width.n = 0 \/ arg.element.rect.height.n = 0) => ret = Null)
        /\ \A node \in NodesOf(ret) :
              ("sourceElement" \in DOMAIN node /\ ~IsPseudoNode(node))
                  => (node.width.n # 0 /\ node.height.n # 0)

\* What the code does: an element measured 0 by 0 gives null.
EmptyBoxGivesNull ==
    (BuildDone /\ arg.element.rect.width.n = 0 /\ arg.element.rect.height.n = 0)
        => ret = Null

\* C19: no node built from an element with position absolute or fixed
\* carries an autoLayout configuration.
C19_NoAutoLayoutWhenAbsoluteOrFixed ==
    (BuildDone /\ arg.element.styles.position \in {"absolute", "fixed"} /\ ret # Null)
        => ~hasAutoLayout(ret)

\* What the code does: an absolutely positioned or fixed element that gets no
\* text child carries no autoLayout.
NoAutoLayoutWhenAbsoluteWithoutTextChild ==
    (/\ BuildDone
     /\ arg.element.styles.position \in {"absolute", "fixed"}
     /\ ret # Null
     /\ \A i \in DOMAIN ret.children : "sourceElement" \in DOMAIN ret.children[i])
        => ~hasAutoLayout(ret)

\* the elements of a tree that carry an id, each with its depth below the root
RECURSIVE PlacedElements(_, _)
PlacedElements(element, depth) ==
    (IF element.id # <<>> THEN {[id |-> element.id, depth |-> depth]} ELSE {})
    \cup UNION {PlacedElements(element.children[i], depth + 1) :
                   i \in DOMAIN element.children}

\* the ids of the elements that nodes of a tree are built from
BuiltIds(tree) ==
    {node.sourceElement.id :
        node \in {n \in NodesOf(tree) : "sourceElement" \in DOMAIN n /\ ~IsPseudoNode(n)}}

\* a visual, visible element with a box that is not empty
IsCapturable(element, options) ==
    /\ ~isNonVisualElement(element.tagName)
    /\ (options.includeHidden \/ isVisible(element.styles))
    /\ ~(element.rect.width.n = 0 /\ element.rect.height.n = 0)

\* the elements with an id, at depth maxDepth at most, that are capturable
\* and lie under capturable elements whose children are traversed
RECURSIVE WithinDepth(_, _, _)
WithinDepth(element, depth, options) ==
    IF depth > options.maxDepth \/ ~IsCapturable(element, options) THEN {}
    ELSE (IF element.id # <<>> THEN {element.id} ELSE {})
         \cup (IF determineLayerType(element, element.styles) = "TEXT"
                  \/ element.tagName = "svg"
               THEN {}
               ELSE UNION {WithinDepth(element.children[i], depth + 1, options) :
                              i \in DOMAIN element.children})

\* C18: no element nested deeper than maxDepth below the capture root has a
\* node in the tree, and every capturable element at depth maxDepth at most
\* whose ancestors are traversed has one.
C18_DepthBounded ==
    BuildDone =>
        /\ \A e \in PlacedElements(arg.element, 0) :
              e.depth > mergedOptions(DEFAULT_OPTIONS, arg.options).maxDepth
                  => e.id \notin BuiltIds(ret)
        /\ WithinDepth(arg.element, 0, mergedOptions(DEFAULT_OPTIONS, arg.options))
              \subseteq BuiltIds(ret)

\* a chain of three elements converted with maxDepth 1: the first two have
\* nodes, the third has none
C18_Witness ==
    /\ BuildDone
    /\ arg.options = [maxDepth |-> 1]
    /\ [id |-> <<"n", "2">>, depth |-> 2] \in PlacedElements(arg.element, 0)
    /\ ret # Null
    /\ <<"n", "0">> \in BuiltIds(ret)
    /\ <<"n", "1">> \in BuiltIds(ret)
    /\ <<"n", "2">> \notin BuiltIds(ret)

(***************************************************************************)
(* parseTextStyle (layer-meta.ts).  The line height is a number or the     *)
(* string AUTO.                                                            *)
(***************************************************************************)
\* /^["']?([^"',]+)["']?/
fontFamilyRe ==
    Bol \o Rep(Quotes, 0, 1) \o Cap(1, RepNot(Quotes \cup {","}, 1, -1)) \o Rep(Quotes, 0, 1)

\* lines 604-608
parseFontFamily(fontFamily) ==
    The({IF m.ok THEN trim(Group(fontFamily, m, 1)) ELSE Chars("Inter") :
            m \in {Match(fontFamilyRe, fontFamily, 1)}})

\* lines 616-633
weightMap ==
    {<<"thin", 100>>, <<"hairline", 100>>, <<"extralight", 200>>, <<"ultra-light", 200>>,
     <<"light", 300>>, <<"normal", 400>>, <<"regular", 400>>, <<"medium", 500>>,
     <<"semibold", 600>>, <<"semi-bold", 600>>, <<"bold", 700>>, <<"extrabold", 800>>,
     <<"extra-bold", 800>>, <<"ultra-bold", 800>>, <<"black", 900>>, <<"heavy", 900>>}

\* line 635: weightMap[weight.toLowerCase()] || 400 (the weight names no
\* property that an object inherits)
weightOfName(lower) ==
    IF \E e \in weightMap : Chars(e[1]) = lower
    THEN Whole((CHOOSE e \in weightMap : Chars(e[1]) = lower)[2])
    ELSE Whole(400)

\* lines 610-636
parseFontWeight(weight) ==
    The({IF numWeight.k = "num" THEN numWeight ELSE weightOfName(toLowerCase(weight)) :
            numWeight \in {parseInt10(weight)}})

\* lines 638-640
parseFontStyle(fontStyle) ==
    IF fontStyle = "italic" \/ fontStyle = "oblique" THEN "italic" ELSE "normal"

\* parseFloat(fontSize) || 16
fontSizeOf(fontSize) == NumOr(parseFloat(fontSize), Whole(16))

\* line 647: Math.round(fs * 1.2 * 100) / 100
normalLineHeight(fs) == Num(Round(Mul(Mul(fs, Num(12, 10)), Whole(100))), 100)

\* lines 642-663
parseLineHeight(lineHeight, fontSize) ==
    IF lineHeight = Chars("normal") THEN normalLineHeight(fontSizeOf(fontSize))
    ELSE The({IF lh.k # "num" THEN "AUTO"
              ELSE IF includes(lineHeight, Chars("px")) THEN lh
              ELSE Mul(lh, fontSizeOf(fontSize)) :
                 lh \in {parseFloat(lineHeight)}})

\* lines 665-682
parseLetterSpacing(letterSpacing, fontSize) ==
    IF letterSpacing = Chars("normal") THEN Whole(0)
    ELSE The({IF ls.k # "num" THEN Whole(0)
              ELSE IF includes(letterSpacing, Chars("em")) THEN Mul(ls, fontSizeOf(fontSize))
              ELSE ls :
                 ls \in {parseFloat(letterSpacing)}})

\* lines 684-696
parseTextAlign(textAlign) ==
    CASE textAlign = "center" -> "CENTER"
      [] textAlign \in {"right", "end"} -> "RIGHT"
      [] textAlign = "justify" -> "JUSTIFIED"
      [] OTHER -> "LEFT"

\* lines 698-706
parseTextDecoration(textDecoration) ==
    IF includes(textDecoration, Chars("underline")) THEN "UNDERLINE"
    ELSE IF includes(textDecoration, Chars("line-through")) THEN "STRIKETHROUGH"
    ELSE "NONE"

\* lines 708-719
parseTextTransform(textTransform) ==
    CASE textTransform = "uppercase" -> "UPPER"
      [] textTransform = "lowercase" -> "LOWER"
      [] textTransform = "capitalize" -> "TITLE"
      [] OTHER -> "ORIGINAL"

\* lines 584-602
parseTextStyle(styles) ==
    [fontFamily |-> parseFontFamily(styles.fontFamily),
     fontWeight |-> parseFontWeight(styles.fontWeight),
     fontStyle |-> parseFontStyle(styles.fontStyle),
     fontSize |-> fontSizeOf(styles.fontSize),
     lineHeight |-> parseLineHeight(styles.lineHeight, styles.fontSize),
     letterSpacing |-> parseLetterSpacing(styles.letterSpacing, styles.fontSize),
     textAlign |-> parseTextAlign(styles.textAlign),
     textDecoration |-> parseTextDecoration(styles.textDecoration),
     textCase |-> parseTextTransform(styles.textTransform),
     color |-> parseColor(styles.color, NoFallback)]

(***************************************************************************)
(* Calls of parseTextStyle.                                                *)
(***************************************************************************)
TextStyles ==
    [fontFamily |-> Chars("\"Open Sans\", sans-serif"), fontWeight |-> Chars("400"),
     fontStyle |-> "normal", fontSize |-> Chars("16px"), lineHeight |-> Chars("normal"),
     letterSpacing |-> Chars("normal"), textAlign |-> "start",
     textDecoration |-> Chars("none solid rgb(0, 0, 0)"), textTransform |-> "none",
     color |-> Chars("rgb(0, 0, 0)")]

\* line heights by the way they are written
LineHeightTexts ==
    {[kind |-> "normal", text |-> Chars("normal")],
     [kind |-> "unitless", text |-> Chars("1.5")],
     [kind |-> "unitless", text |-> Chars("2")],
     [kind |-> "unitless", text |-> Chars("0")],
     [kind |-> "percentage", text |-> Chars("150%")],
     [kind |-> "percentage", text |-> Chars("100%")],
     [kind |-> "pixel", text |-> Chars("24px")],
     [kind |-> "pixel", text |-> Chars("19.5px")],
     [kind |-> "unparsable", text |-> Chars("")],
     [kind |-> "unparsable", text |-> Chars("inherit")]}

FontSizeTexts == {Chars("16px"), Chars("10px"), Chars("12.5px"), Chars("13.33px"), Chars("")}

LetterSpacingTexts == {Chars("normal"), Chars("0.5px"), Chars("0.1em")}

FontWeightTexts == {Chars("400"), Chars("Bold")}

InitTextStyle ==
    /\ pc = "call"
    /\ fn = "parseTextStyle"
    /\ ret = <<>>
    /\ arg \in {[kind |-> lineHeight.kind,
                 styles |-> [TextStyles EXCEPT !.lineHeight = lineHeight.text,
                                               !.fontSize = fontSize,
                                               !.letterSpacing = letterSpacing,
                                               !.fontWeight = fontWeight]] :
                   lineHeight \in LineHeightTexts, fontSize \in FontSizeTexts,
                   letterSpacing \in LetterSpacingTexts, fontWeight \in FontWeightTexts}

\* parseTextStyle(styles)
ParseTextStyle ==
    /\ pc = "call"
    /\ fn = "parseTextStyle"
    /\ ret' = parseTextStyle(arg.styles)
    /\ pc' = "done"
    /\ UNCHANGED <<fn, arg>>

NextTextStyle == ParseTextStyle

SpecTextStyle == InitTextStyle /\ [][NextTextStyle]_vars

TextStyleDone == pc = "done" /\ fn = "parseTextStyle"

\* the number a line height is written with
WrittenLineHeight == parseFloat(arg.styles.lineHeight)

\* the line height of the text style: a fixed multiple of the font size
LineHeightIsTimes(factor) == ret.lineHeight = Mul(factor, ret.fontSize)

\* C23: the line height parseTextStyle returns is 1.2 x fontSize for normal,
\* n x fontSize for a unitless number n, (p/100) x fontSize for a percentage
\* p%, the value of a pixel literal unchanged, and AUTO for a value that is
\* not a number.
C23_LineHeightResolved ==
    TextStyleDone =>
        CASE arg.kind = "normal" -> LineHeightIsTimes(Num(12, 10))
          [] arg.kind = "unitless" -> LineHeightIsTimes(WrittenLineHeight)
          [] arg.kind = "percentage" ->
                LineHeightIsTimes(Div(WrittenLineHeight, Whole(100)))
          [] arg.kind = "pixel" -> ret.lineHeight = WrittenLineHeight
          [] OTHER -> ret.lineHeight = "AUTO"

\* What the code does: a percentage is multiplied as if it were a ratio, and
\* the line height of normal is rounded to hundredths.
LineHeightOfCode ==
    TextStyleDone =>
        CASE arg.kind = "normal" ->
                /\ ret.lineHeight.d \in {1, 2, 4, 5, 10, 20, 25, 50, 100}
                /\ Le(NumAbs(Sub(ret.lineHeight, Mul(Num(12, 10), ret.fontSize))),
                      Num(1, 200))
          [] arg.kind = "unitless" -> LineHeightIsTimes(WrittenLineHeight)
          [] arg.kind = "percentage" -> LineHeightIsTimes(WrittenLineHeight)
          [] arg.kind = "pixel" -> ret.lineHeight = WrittenLineHeight
          [] OTHER -> ret.lineHeight = "AUTO"

(***************************************************************************)
(* The item-spacing pass of convertElement on block-flow containers with   *)
(* up to MaxFlowChildren flow children: a block container lays its         *)
(* children out top to bottom, an inline-block container left to right.    *)
(***************************************************************************)
MaxFlowChildren == 4

SpacingGapValues ==
    {Whole(-10), Whole(0), Num(5, 2), Whole(3), Whole(4), Whole(5), Whole(30)}

SpacingGapLists == UNION {[1..n -> SpacingGapValues] : n \in 0..(MaxFlowChildren - 1)}

BlockFlowContainers ==
    {[display |-> "block",
      autoLayout |-> [mode |-> "VERTICAL", counterAxisAlignItems |-> "MIN",
                      itemSpacing |-> Whole(0)]],
     [display |-> "inline-block",
      autoLayout |-> [mode |-> "HORIZONTAL", counterAxisAlignItems |-> "CENTER",
                      itemSpacing |-> Whole(0)]]}

InitSpacing ==
    /\ pc = "call"
    /\ fn = "convertElement"
    /\ ret = <<>>
    /\ arg \in {[autoLayout |-> c.autoLayout,
                 display |-> c.display,
                 children |-> ChildrenOf(gaps, c.autoLayout.mode = "VERTICAL", withAbsolute),
                 gaps |-> gaps] :
                   gaps \in SpacingGapLists, c \in BlockFlowContainers,
                   withAbsolute \in BOOLEAN}

NextSpacing == InferItemSpacing

SpecSpacing == InitSpacing /\ [][NextSpacing]_vars

SpacingDone == pc = "done" /\ fn = "convertElement" /\ Len(arg.gaps) >= 1

IsVerticalFlow == arg.autoLayout.mode = "VERTICAL"

\* the least and the greatest of a sequence of numbers
LeastOf(xs) == CHOOSE x \in {xs[i] : i \in DOMAIN xs} : \A i \in DOMAIN xs : Le(x, xs[i])

GreatestOf(xs) == CHOOSE x \in {xs[i] : i \in DOMAIN xs} : \A i \in DOMAIN xs : Le(xs[i], x)

\* the gaps of the container as the pass counts them: a negative gap is 0 and
\* a fraction is rounded
CountedGaps == [i \in DOMAIN arg.gaps |-> Whole(Round(Max0(arg.gaps[i])))]

\* the gap that follows the k-th flow child, none after the last
HasTrailingGap(k) == k <= Len(arg.gaps)

\* the node is a synthesized frame without fills that holds the child at 0, 0
\* and has `extra` units of padding after it along the primary axis and no
\* other padding
IsSpacingWrapper(node, child, extra) ==
    /\ "sourceElement" \notin DOMAIN node
    /\ node.type = "FRAME"
    /\ node.fills = <<>>
    /\ node.children = <<[child EXCEPT !.x = Whole(0), !.y = Whole(0)]>>
    /\ node.autoLayout.paddingTop = Whole(0)
    /\ node.autoLayout.paddingLeft = Whole(0)
    /\ node.autoLayout.paddingBottom = (IF IsVerticalFlow THEN extra ELSE Whole(0))
    /\ node.autoLayout.paddingRight = (IF IsVerticalFlow THEN Whole(0) ELSE extra)

WrappedFlowChildren ==
    {k \in 1..Len(arg.gaps) :
        ret.children[FlowPosition(k)] # arg.children[FlowPosition(k)]}

\* the size of a node along the primary axis of the container, and across it
PrimarySize(node) == IF IsVerticalFlow THEN node.height ELSE node.width

CrossSize(node) == IF IsVerticalFlow THEN node.width ELSE node.height

\* the wrapper sits where the child sat, is as large across, holds the child
\* alone at 0, 0, and is longer than the child by trailing gap - itemSpacing
WrapperReproduces(wrapper, child, trailingGap) ==
    /\ wrapper.x = child.x
    /\ wrapper.y = child.y
    /\ CrossSize(wrapper) = CrossSize(child)
    /\ wrapper.children = <<[child EXCEPT !.x = Whole(0), !.y = Whole(0)]>>
    /\ PrimarySize(wrapper)
          = Add(PrimarySize(child), Sub(trailingGap, ret.autoLayout.itemSpacing))

\* C29: every wrapper the item-spacing pass puts around a flow child keeps
\* the x, y and cross-axis size of the child, has the child rebased to 0, 0
\* as its only child, and its size along the primary axis of the container is
\* the size of the child plus (trailing gap - itemSpacing), in a HORIZONTAL
\* container as in a VERTICAL one.
C29_WrapperReproducesLayout ==
    SpacingDone =>
        \A k \in WrappedFlowChildren :
            WrapperReproduces(ret.children[FlowPosition(k)], arg.children[FlowPosition(k)],
                              CountedGaps[k])

\* What the code does: in a VERTICAL container the wrapper is as the claim
\* says; in a HORIZONTAL container the wrapper is exactly as wide as the child
\* and the extra gap is in paddingRight alone.
VerticalWrapperReproducesLayout ==
    SpacingDone =>
        \A k \in WrappedFlowChildren :
            IF IsVerticalFlow
            THEN WrapperReproduces(ret.children[FlowPosition(k)],
                                   arg.children[FlowPosition(k)], CountedGaps[k])
            ELSE /\ ret.children[FlowPosition(k)].width = arg.children[FlowPosition(k)].width
                 /\ ret.children[FlowPosition(k)].autoLayout.paddingRight
                       = Sub(CountedGaps[k], ret.autoLayout.itemSpacing)

\* the child elements of the converted element that are fixed or sticky
IsFixedOrSticky(element) == element.styles.position \in {"fixed", "sticky"}

\* the node was built from a fixed or sticky child element of the root
FromFixedChild(node) ==
    /\ "sourceElement" \in DOMAIN node
    /\ \E i \in DOMAIN arg.element.children :
          /\ arg.element.children[i].id = node.sourceElement.id
          /\ IsFixedOrSticky(arg.element.children[i])

\* isAbsolutelyPositioned, y = 0 and a z-index of 1000 or more
IsElevated(node) ==
    /\ node.isAbsolutelyPositioned
    /\ node.y = Whole(0)
    /\ Le(Whole(1000), node.zIndex)

\* C25: every fixed or sticky child is emitted with isAbsolutelyPositioned
\* set, y = 0 and a z-index of 1000 or more, and in the final children list
\* of its parent it comes after every node that is not a fixed or sticky
\* child.
C25_FixedChildrenOnTop ==
    (BuildDone /\ ret # Null) =>
        \A j \in DOMAIN ret.children :
            FromFixedChild(ret.children[j]) =>
                /\ IsElevated(ret.children[j])
                /\ \A h \in (j + 1)..Len(ret.children) : FromFixedChild(ret.children[h])

\* What the code does: the node of a fixed or sticky child is elevated, and
\* the nodes after it are the ::after pseudo-element or have a z-index that is
\* at least as high.
FixedChildrenElevated ==
    (BuildDone /\ ret # Null) =>
        \A j \in DOMAIN ret.children :
            FromFixedChild(ret.children[j]) =>
                /\ IsElevated(ret.children[j])
                /\ \A h \in (j + 1)..Len(ret.children) :
                      \/ IsPseudoNode(ret.children[h])
                      \/ Le(ret.children[j].zIndex, Whole(zIndexOrZero(Unwrapped(ret.children[h]))))

\* a fixed header followed in the children list by a div with z-index 2000
TopmostAboveFixed ==
    /\ BuildDone /\ ret # Null
    /\ \E j \in DOMAIN ret.children :
          /\ FromFixedChild(ret.children[j])
          /\ \E h \in (j + 1)..Len(ret.children) :
                /\ ~IsPseudoNode(ret.children[h])
                /\ ~FromFixedChild(ret.children[h])
                /\ zIndexOrZero(ret.children[h]) = 2000

\* lines 1284-1295 for the converted element: the height of its fixed or
\* sticky children near the top
FixedTopHeight == fixedTopHeightOf(arg.element.children, Whole(0))

\* the child elements of the converted element that are in the flow and
\* whose node is among the children of the result
EmittedFlowChildren ==
    {i \in DOMAIN arg.element.children :
        /\ arg.element.children[i].styles.position \in {"static", "relative"}
        /\ \E j \in DOMAIN ret.children :
              /\ "sourceElement" \in DOMAIN Unwrapped(ret.children[j])
              /\ Unwrapped(ret.children[j]).sourceElement.id = arg.element.children[i].id}

\* y of the node of the i-th child element after the adjustment, and before
AdjustedY(i) ==
    ret.children[CHOOSE j \in DOMAIN ret.children :
        /\ "sourceElement" \in DOMAIN Unwrapped(ret.children[j])
        /\ Unwrapped(ret.children[j]).sourceElement.id = arg.element.children[i].id].y

MeasuredY(i) == Sub(arg.element.children[i].rect.top, arg.element.rect.top)

\* C27: when the parent has a fixed or sticky child near the top, two flow
\* siblings A and B with A.y <= B.y before the adjustment have A.y <= B.y
\* after it, and no adjusted y is negative.
C27_AdjustmentKeepsOrder ==
    (BuildDone /\ ret # Null /\ Lt(Whole(0), FixedTopHeight)) =>
        /\ \A a, b \in EmittedFlowChildren :
              Le(MeasuredY(a), MeasuredY(b)) => Le(AdjustedY(a), AdjustedY(b))
        /\ \A a \in EmittedFlowChildren : Le(Whole(0), AdjustedY(a))

\* What the code does: a child that begins within 20 units of the height of
\* the header moves to 0, a child that begins further below moves up by that
\* height, and a child that begins further above stays where it is.
AdjustmentOfCode ==
    (BuildDone /\ ret # Null /\ Lt(Whole(0), FixedTopHeight)) =>
        \A a \in EmittedFlowChildren :
            AdjustedY(a) =
                IF Lt(NumAbs(Sub(MeasuredY(a), FixedTopHeight)), Whole(20)) THEN Whole(0)
                ELSE IF Lt(FixedTopHeight, MeasuredY(a))
                THEN Sub(MeasuredY(a), FixedTopHeight)
                ELSE MeasuredY(a)

(***************************************************************************)
(* Two conversions of a container whose child elements keep their boxes:   *)
(* in the second, one flow child is given position relative and a z-index. *)
(***************************************************************************)
StackedKindLists == UNION {[1..n -> {"text", "narrow"}] : n \in 2..MaxElementChildren}

StackedZIndexes == {Chars("5"), Chars("-1")}

\* the element with the z-index of its child changed
Restacked(element, child, zIndex) ==
    [element EXCEPT !.children[child].styles.position = "relative",
                    !.children[child].styles.zIndex = zIndex]

InitStacking ==
    /\ pc = "call"
    /\ fn = "domToLayer"
    /\ ret = <<>>
    /\ arg \in UNION {{[element |-> ContainerElement(kinds, setting),
                        options |-> setting.options,
                        child |-> child, zIndex |-> zIndex] :
                          child \in DOMAIN kinds, zIndex \in StackedZIndexes,
                          setting \in ContainerSettings} :
                      kinds \in StackedKindLists}

\* domToLayer on the container, and then on the container restacked
ConvertStacked ==
    /\ fn = "domToLayer"
    /\ pc \in {"call", "converted"}
    /\ ret' = Append(ret, domToLayer(IF pc = "call" THEN arg.element
                                     ELSE Restacked(arg.element, arg.child, arg.zIndex),
                                     arg.options))
    /\ pc' = IF pc = "call" THEN "converted" ELSE "restacked"
    /\ UNCHANGED <<fn, arg>>

NextStacking == ConvertStacked

SpecStacking == InitStacking /\ [][NextStacking]_vars

StackingDone == fn = "domToLayer" /\ pc = "restacked"

\* a spacing wrapper among the children of a layer
IsWrapperNode(node) == "sourceElement" \notin DOMAIN node /\ node.type = "FRAME"

\* the names of the children of a layer that are inside a spacing wrapper
WrappedNames(layer) ==
    {layer.children[j].name : j \in {j \in DOMAIN layer.children :
                                        IsWrapperNode(layer.children[j])}}

\* the element children of a layer in the order of its children list
ElementOrder(layer) ==
    [j \in DOMAIN layer.children |-> Unwrapped(layer.children[j]).name] \o <<>>

\* C28: for children whose boxes stay the same, changing the z-index of a
\* flow child changes neither the itemSpacing the container gets nor the set
\* of children that are wrapped.
C28_SpacingIgnoresStacking ==
    StackingDone =>
        /\ ret[1].autoLayout = ret[2].autoLayout
        /\ WrappedNames(ret[1]) = WrappedNames(ret[2])

\* What the code does: the spacing and the wrappers are the same whenever the
\* z-index leaves the children list in the same order.
SpacingFollowsListOrder ==
    (StackingDone /\ ElementOrder(ret[1]) = ElementOrder(ret[2])) =>
        /\ ret[1].autoLayout = ret[2].autoLayout
        /\ WrappedNames(ret[1]) = WrappedNames(ret[2])

(***************************************************************************)
(* Calls of parseGradient on gradients whose stops may have a position     *)
(* written after the colour.                                               *)
(***************************************************************************)
\* the colours of the first, second, ... stop written
StopColorNames == <<"red", "#00ff00", "blue", "white", "black">>

\* a position as it is written and the number it stands for; nothing written
\* is Undefined
StopPositions ==
    {<<"", Undefined>>, <<" 10%", Num(1, 10)>>, <<" 50%", Num(1, 2)>>, <<" 100%", Whole(1)>>}

RECURSIVE JoinPositionedStops(_, _)
JoinPositionedStops(ps, i) ==
    IF i > Len(ps) THEN <<>>
    ELSE Chars(StopColorNames[i]) \o Chars(ps[i][1])
         \o (IF i < Len(ps) THEN Chars(", ") ELSE <<>>)
         \o JoinPositionedStops(ps, i + 1)

PositionLists == UNION {[1..n -> StopPositions] : n \in 1..MaxStops}

InitStops ==
    /\ pc = "call"
    /\ fn = "parseGradient"
    /\ ret = <<>>
    /\ arg \in {[cssGradient |-> Chars("linear-gradient(") \o Chars(prefix)
                                    \o JoinPositionedStops(ps, 1) \o Chars(")"),
                 prefix |-> prefix,
                 positions |-> [i \in 1..Len(ps) |-> ps[i][2]] \o <<>>] :
                   prefix \in {"", "to right, ", "45deg, "}, ps \in PositionLists}

NextStops == ParseGradient

SpecStops == InitStops /\ [][NextStops]_vars

StopsDone == pc = "done" /\ fn = "parseGradient" /\ Len(ret.stops) >= 1

\* the position written for the j-th stop parsed (without an angle or a
\* direction the text up to the first comma is not parsed as a stop)
WrittenPosition(j) == arg.positions[j + Len(arg.positions) - Len(ret.stops)]

\* the stops parsed that have no position written
UnsetStops == {j \in DOMAIN ret.stops : WrittenPosition(j) = Undefined}

\* the number of unset stops before the j-th stop
UnsetBefore(j) == Cardinality({h \in UnsetStops : h < j})

\* C26: every position parseGradient returns lies in [0,1]; a stop with a
\* position written in [0,1] keeps it, and the m stops without one are spread
\* evenly over [0,1] in the order written, counted among themselves: the k-th
\* of them, from 0, gets k/(m-1).
C26_UnsetStopsEvenlySpaced ==
    StopsDone =>
        \A j \in DOMAIN ret.stops :
            /\ InUnit(ret.stops[j].position)
            /\ j \notin UnsetStops => ret.stops[j].position = WrittenPosition(j)
            /\ (j \in UnsetStops /\ Cardinality(UnsetStops) >= 2) =>
                  ret.stops[j].position
                      = Num(UnsetBefore(j), Cardinality(UnsetStops) - 1)

\* What the code does: a stop with a position written keeps it; a stop
\* without one, the idx-th of all the n stops parsed, gets idx/(n-1), and -1
\* when it is the only stop.
UnsetStopsSpacedAmongAll ==
    StopsDone =>
        \A j \in DOMAIN ret.stops :
            ret.stops[j].position =
                IF j \notin UnsetStops THEN WrittenPosition(j)
                ELSE IF Len(ret.stops) = 1 THEN Whole(-1)
                ELSE Num(j - 1, Len(ret.stops) - 1)


(***************************************************************************)
(* captureTextSegments: a paragraph with inline child elements.            *)
(***************************************************************************)
InlineKinds == {"plain", "bold", "emphasis", "underlined", "break"}

\* the direct text of the paragraph, before its child elements
ParagraphTexts == {<<>>, Chars("Hi "), Chars(" Hi "), Chars("  Hi   ")}

InlineOfKind(kind, i) ==
    [Element(CASE kind = "plain" -> "span"
               [] kind = "bold" -> "b"
               [] kind = "emphasis" -> "em"
               [] kind = "underlined" -> "u"
               [] kind = "break" -> "br") EXCEPT
        !.id = <<"k", DigitNames[i + 1]>>,
        !.text = CASE kind = "plain" -> Chars("a b")
                   [] kind = "bold" -> Chars("yo")
                   [] kind = "emphasis" -> Chars(" x ")
                   [] kind = "underlined" -> Chars("u")
                   [] kind = "break" -> <<>>,
        !.rect = Box(10 * i, 0, 10, 20),
        !.styles.display = "inline",
        !.styles.fontWeight = IF kind = "bold" THEN Chars("700") ELSE @,
        !.styles.fontStyle = IF kind = "emphasis" THEN "italic" ELSE @,
        !.styles.color = IF kind = "emphasis" THEN Chars("rgb(255, 0, 0)") ELSE @,
        !.styles.fontSize = IF kind = "underlined" THEN Chars("12px") ELSE @,
        !.styles.textDecorationLine = IF kind = "underlined" THEN Chars("underline")
                                      ELSE @]

InlineKindLists == UNION {[1..n -> InlineKinds] : n \in 1..MaxElementChildren}

Paragraph(text, kinds) ==
    [Element("p") EXCEPT
        !.id = <<"r">>, !.text = text,
        !.children = [i \in DOMAIN kinds |-> InlineOfKind(kinds[i], i)] \o <<>>]

InitSegments ==
    /\ pc = "call"
    /\ fn = "domToLayer"
    /\ ret = Null
    /\ arg \in {[element |-> Paragraph(text, kinds), options |-> <<>>] :
                    text \in ParagraphTexts, kinds \in InlineKindLists}

ConvertParagraph ==
    /\ pc = "call" /\ fn = "domToLayer"
    /\ ret' = domToLayer(arg.element, arg.options)
    /\ pc' = "done"
    /\ UNCHANGED <<fn, arg>>

NextSegments == ConvertParagraph

SpecSegments == InitSegments /\ [][NextSegments]_vars

\* the paragraph became a TEXT node that carries segments
SegmentsDone ==
    /\ fn = "domToLayer" /\ pc = "done"
    /\ ret # Null /\ ret.type = "TEXT" /\ ret.textSegments # <<>>

\* the segments are in ascending order, pairwise disjoint and not empty
SegmentsOrdered(segments) ==
    /\ \A j \in DOMAIN segments : 0 <= segments[j].start /\ segments[j].start < segments[j].end
    /\ \A j \in DOMAIN segments : \A k \in DOMAIN segments :
           j < k => segments[j].end <= segments[k].start

\* C30: every segment of a TEXT node addresses characters of the node: the
\* segments are in ascending order, pairwise disjoint, and each has
\* 0 <= start < end <= length(characters), also when the text of the element
\* has leading white space that the trimmed characters do not contain.
C30_SegmentsAddressCharacters ==
    SegmentsDone =>
        /\ SegmentsOrdered(ret.textSegments)
        /\ \A j \in DOMAIN ret.textSegments :
               ret.textSegments[j].end <= Len(ret.characters)

\* What the code does: the segments are ordered and disjoint, and each
\* addresses its text in the untrimmed innerText of the element.
SegmentsAddressInnerText ==
    SegmentsDone =>
        /\ SegmentsOrdered(ret.textSegments)
        /\ \A j \in DOMAIN ret.textSegments :
               /\ ret.textSegments[j].end <= Len(innerTextOf(arg.element))
               /\ ret.textSegments[j].text
                      = SubSeq(innerTextOf(arg.element),
                               ret.textSegments[j].start + 1, ret.textSegments[j].end)

====
